---- MODULE Spec2Model ----
(***************************************************************************)
(* A model of the synchronisation + calibration + batch-stitching pipeline *)
(* of soccer-broadcast: stitch.py, sync_audio.py and calibrate.py.         *)
(*                                                                         *)
(* Frames are identified by their index in their source; a stitched frame  *)
(* is the pair <<left index, right index>> it was made from.  Every call   *)
(* that touches a source, the output or the callback appends an event      *)
(* <<name, n>> to `log`, so that ordering properties are state predicates. *)
(***************************************************************************)
EXTENDS Integers, Sequences, FiniteSets, TLC

\* ------------------------------------------------------------------ bounds
MaxFrames == 3          \* readable frames per source: 0..MaxFrames
MaxOffset == 2          \* frame_offset: -MaxOffset..MaxOffset
MaxSkew == 2            \* a camera starts at instant 0..MaxSkew (frames)
MaxShift == 5           \* shift between two cut signals: -MaxShift..MaxShift
MaxCutLen == 8          \* samples of a cut signal: MinCutLen..MaxCutLen
MaxTotal == 5           \* frame count of the source calibrate_multi samples: 0..MaxTotal
MaxSigLen == 3          \* samples of a short audio signal: 1..MaxSigLen
MaxPanoW == 8           \* widest panorama a CropState is made for
MaxPanoH == 4           \* tallest panorama a CropState is made for
MaxRows == 3            \* rows of a session log: 1..MaxRows
MaxSource == 3          \* readable frames of the panorama video: 0..MaxSource
MaxSyncSkew == 3        \* start instant of a camera whose sync is detected twice: 0..MaxSyncSkew

\* ------------------------------------------------------------------ helpers
Max(a, b) == IF a >= b THEN a ELSE b
Min(a, b) == IF a <= b THEN a ELSE b
Abs(a) == IF a >= 0 THEN a ELSE -a

\* [e \in events of s : e[1] = name], kept in order
RECURSIVE EventsNamed(_, _)
EventsNamed(s, name) ==
    IF s = <<>> THEN <<>>
    ELSE IF Head(s)[1] = name THEN <<Head(s)>> \o EventsNamed(Tail(s), name)
         ELSE EventsNamed(Tail(s), name)

\* the positions of s that hold an event with one of the names
Positions(s, names) == {i \in 1..Len(s) : s[i][1] \in names}

\* ------------------------------------------------------- calibration record
RequiredKeys == {"homography", "canvas_width", "canvas_height",
                 "blend_x_start", "blend_x_end", "offset_x", "offset_y"}

\* JSON number tokens a homography entry may hold (json.load accepts NaN and
\* Infinity); only finiteness matters to the batch orchestration.
FiniteEntries == {"0", "1"}
NonFiniteEntries == {"NaN", "Infinity", "-Infinity"}

IdentityH == << <<"1", "0", "0">>, <<"0", "1", "0">>, <<"0", "0", "1">> >>

\* IdentityH with entry (r, c) replaced
WithEntry(r, c, e) ==
    [i \in 1..3 |-> [j \in 1..3 |-> IF i = r /\ j = c THEN e ELSE IdentityH[i][j]]]

MalformedShapes ==
    { <<>>,                                                  \* shape (0,)
      << <<"1", "0", "0">>, <<"0", "1", "0">> >>,            \* 2x3
      << <<"1", "0">>, <<"0", "1">>, <<"0", "0">> >>,        \* 3x2
      << <<"1", "0", "0">>, <<"0", "1", "0">>, <<"0", "0", "1">>, <<"0", "0", "1">> >>,  \* 4x3
      << <<"1", "0", "0", "0">>, <<"0", "1", "0", "0">>, <<"0", "0", "1", "0">> >>,      \* 3x4
      << <<"1", "0", "0">>, <<"0", "1">>, <<"0", "0", "1">> >> }                         \* ragged

NonFiniteHs == {WithEntry(r, c, e) : r \in 1..3, c \in 1..3, e \in NonFiniteEntries}

Homographies == {IdentityH, WithEntry(1, 3, "1")} \cup NonFiniteHs \cup MalformedShapes

CanvasSizes == {-1, 0, 2}

\* A calibration artifact as json.load returns it: the set of keys present
\* and the values of the keys stitch_videos inspects.
ArtifactSpace ==
    [keys : {RequiredKeys} \cup {RequiredKeys \ {k} : k \in RequiredKeys},
     homography : Homographies,
     canvas_width : CanvasSizes,
     canvas_height : CanvasSizes]

GoodArtifact ==
    [keys |-> RequiredKeys, homography |-> IdentityH,
     canvas_width |-> 2, canvas_height |-> 2]

Defects(a) ==
    (IF a.keys # RequiredKeys THEN 1 ELSE 0)
    + (IF a.homography \notin {IdentityH, WithEntry(1, 3, "1")} THEN 1 ELSE 0)
    + (IF a.canvas_width <= 0 THEN 1 ELSE 0)
    + (IF a.canvas_height <= 0 THEN 1 ELSE 0)

\* the artifacts drawn as inputs: sound ones and ones with a single defect
Artifacts == {a \in ArtifactSpace : Defects(a) <= 1}

\* np.array(cal_data["homography"], dtype=np.float64).shape, or <<-1>> when
\* the rows differ in length (np.array raises ValueError)
Shape(h) ==
    IF Len(h) = 0 THEN <<0>>
    ELSE IF \E i \in 1..Len(h) : Len(h[i]) # Len(h[1]) THEN <<-1>>
         ELSE <<Len(h), Len(h[1])>>

HasNonFinite(h) ==
    \E i \in 1..Len(h) : \E j \in 1..Len(h[i]) : h[i][j] \in NonFiniteEntries

\* a validation that reads the offsets with a default instead of requiring them
ValidateCalibration_defaults(cal) ==
    IF (RequiredKeys \ {"offset_x", "offset_y"}) \ cal.keys # {} THEN "ValueError"
    ELSE IF Shape(cal.homography) # <<3, 3>> THEN "ValueError"
    ELSE IF HasNonFinite(cal.homography) THEN "ValueError"
    ELSE IF cal.canvas_width <= 0 \/ cal.canvas_height <= 0 THEN "ValueError"
    ELSE "ok"

\* stitch_videos' validation of cal_data: "ok", or the exception it raises
ValidateCalibration(cal) ==
    IF RequiredKeys \ cal.keys # {} THEN "ValueError"
    ELSE IF Shape(cal.homography) = <<-1>> THEN "ValueError"
    ELSE IF Shape(cal.homography) # <<3, 3>> THEN "ValueError"
    ELSE IF HasNonFinite(cal.homography) THEN "ValueError"
    ELSE IF cal.canvas_width <= 0 \/ cal.canvas_height <= 0 THEN "ValueError"
    ELSE "ok"

\* ------------------------------------------------- detect_timecode_offset
\* A timecode tag is a string, modelled as a sequence of tokens <<kind, v>>:
\* <<"num", v>> is a run of decimal digits of value v, <<":", 0>>, <<";", 0>>
\* and <<".", 0>> are the punctuation, <<"junk", 0>> is any other text.  The
\* empty sequence is the empty string; a tag that is absent from the ffprobe
\* output behaves like it (`if tc:`).
NominalFps == 30
MaxFields == 4          \* fields of a drawn tag: 1..MaxFields

Num(v) == <<"num", v>>
Colon == <<":", 0>>
Semi == <<";", 0>>
Dot == <<".", 0>>
Junk == <<"junk", 0>>
Absent == <<>>

\* seconds are exact rationals [num, den], den > 0
Rat(n, d) == [num |-> n, den |-> d]

RECURSIVE Gcd(_, _)
Gcd(a, b) == IF b = 0 THEN a ELSE Gcd(b, a % b)

Lcm(a, b) == (a \div Gcd(a, b)) * b

\* x - y over the least common denominator
RatSub(x, y) ==
    Rat(x.num * (Lcm(x.den, y.den) \div x.den) - y.num * (Lcm(x.den, y.den) \div y.den),
        Lcm(x.den, y.den))

RatEq(x, y) == x.num * y.den = y.num * x.den

\* tc_str.replace(";", ":")
ReplaceSemi(tag) == [i \in 1..Len(tag) |-> IF tag[i] = Semi THEN Colon ELSE tag[i]]

\* str.split(":"): the parts between the colons, empty parts included
RECURSIVE SplitColon(_)
SplitColon(tag) ==
    IF \A i \in 1..Len(tag) : tag[i] # Colon THEN <<tag>>
    ELSE LET k == CHOOSE i \in 1..Len(tag) :
                      tag[i] = Colon /\ \A j \in 1..(i - 1) : tag[j] # Colon
         IN  <<SubSeq(tag, 1, k - 1)>> \o SplitColon(SubSeq(tag, k + 1, Len(tag)))

\* int(part) succeeds on a single run of digits
IsInt(part) == Len(part) = 1 /\ part[1][1] = "num"
IntOf(part) == part[1][2]

\* float(part) succeeds on digits, digits "." digits, digits "." and "." digits
IsFloat(part) ==
    \/ IsInt(part)
    \/ Len(part) = 2 /\ part[1][1] = "num" /\ part[2] = Dot
    \/ Len(part) = 2 /\ part[1] = Dot /\ part[2][1] = "num"
    \/ Len(part) = 3 /\ part[1][1] = "num" /\ part[2] = Dot /\ part[3][1] = "num"

\* the value of float(part) in milliseconds; a fraction is three digits (mmm)
MillisOf(part) ==
    IF IsInt(part) THEN 1000 * part[1][2]
    ELSE IF Len(part) = 2 /\ part[2] = Dot THEN 1000 * part[1][2]
    ELSE IF Len(part) = 2 THEN part[2][2]
    ELSE 1000 * part[1][2] + part[3][2]

NoResult == [kind |-> "none", val |-> Rat(0, 1)]
Raises(e) == [kind |-> e, val |-> Rat(0, 1)]
Value(r) == [kind |-> "value", val |-> r]

\* timecode_to_seconds(tc_str, fps=30.0): a value, None, or the ValueError
\* int() or float() raises
TimecodeToSeconds(tag) ==
    LET parts == SplitColon(ReplaceSemi(tag))
    IN  IF Len(parts) = 4
        THEN IF \A i \in 1..4 : IsInt(parts[i])
             THEN Value(Rat((IntOf(parts[1]) * 3600 + IntOf(parts[2]) * 60
                              + IntOf(parts[3])) * NominalFps + IntOf(parts[4]),
                            NominalFps))
             ELSE Raises("ValueError")
        ELSE IF Len(parts) = 3
        THEN IF IsInt(parts[1]) /\ IsInt(parts[2]) /\ IsFloat(parts[3])
             THEN Value(Rat((IntOf(parts[1]) * 3600 + IntOf(parts[2]) * 60) * 1000
                              + MillisOf(parts[3]), 1000))
             ELSE Raises("ValueError")
        ELSE NoResult

\* What ffprobe gives for one path: how the call ended, the container's
\* timecode tag and the timecode tag of each stream.
ProbeStatuses == {"ok", "nonzero_exit", "timeout", "invalid_json", "not_installed"}
Probe(st, fmt, strs) == [status |-> st, format_tc |-> fmt, stream_tcs |-> strs]

\* a search that looks at the stream tags before the container's
GetTimecode_stream_first(probe) ==
    IF probe.status # "ok" THEN Absent
    ELSE IF \E i \in 1..Len(probe.stream_tcs) : probe.stream_tcs[i] # Absent
         THEN probe.stream_tcs[CHOOSE i \in 1..Len(probe.stream_tcs) :
                  /\ probe.stream_tcs[i] # Absent
                  /\ \A j \in 1..(i - 1) : probe.stream_tcs[j] = Absent]
         ELSE probe.format_tc

\* get_timecode(path): the tag, or Absent for None
GetTimecode(probe) ==
    IF probe.status # "ok" THEN Absent
    ELSE IF probe.format_tc # Absent THEN probe.format_tc
    ELSE IF \E i \in 1..Len(probe.stream_tcs) : probe.stream_tcs[i] # Absent
         THEN probe.stream_tcs[CHOOSE i \in 1..Len(probe.stream_tcs) :
                  /\ probe.stream_tcs[i] # Absent
                  /\ \A j \in 1..(i - 1) : probe.stream_tcs[j] = Absent]
         ELSE Absent

\* detect_timecode_offset(left_path, right_path)
DetectTimecodeOffset(probe_left, probe_right) ==
    LET tc_left == GetTimecode(probe_left)
        tc_right == GetTimecode(probe_right)
    IN  IF tc_left = Absent \/ tc_right = Absent THEN NoResult
        ELSE LET sec_left == TimecodeToSeconds(tc_left)
             IN  IF sec_left.kind \notin {"value", "none"} THEN sec_left
                 ELSE LET sec_right == TimecodeToSeconds(tc_right)
                      IN  IF sec_right.kind \notin {"value", "none"} THEN sec_right
                          ELSE IF sec_left.kind = "none" \/ sec_right.kind = "none"
                               THEN NoResult
                               ELSE Value(RatSub(sec_right.val, sec_left.val))

\* the fields a drawn tag is made of
Fields == { <<>>, <<Num(1)>>, <<Junk>>, <<Num(1), Dot, Num(500)>> }
Separators == {Colon, Semi}

\* f1 sep f2 sep ... fn
RECURSIVE Join(_, _)
Join(fs, sep) ==
    IF Len(fs) = 1 THEN fs[1] ELSE fs[1] \o <<sep>> \o Join(Tail(fs), sep)

\* a tag whose last separator is `last` and whose other separators are ":"
\* ("HH:MM:SS;FF" is how drop-frame timecode is written)
JoinLast(fs, last) ==
    IF Len(fs) = 1 THEN fs[1]
    ELSE Join(SubSeq(fs, 1, Len(fs) - 1), Colon) \o <<last>> \o fs[Len(fs)]

DrawnTags ==
    UNION {{JoinLast(fs, sep) : fs \in [1..n -> Fields], sep \in Separators}
           : n \in 1..MaxFields}

\* well-formed tags the other source carries while one tag is varied
KeyTags == { <<Num(0), Colon, Num(0), Colon, Num(2), Colon, Num(15)>>,
             <<Num(0), Colon, Num(0), Colon, Num(1), Dot, Num(500)>> }

DrawnProbes ==
    {Probe("ok", t, <<>>) : t \in DrawnTags}
    \cup {Probe("ok", Absent, <<Absent, t>>) : t \in DrawnTags}
    \cup {Probe(st, Absent, <<>>) : st \in ProbeStatuses}

KeyProbes ==
    {Probe("ok", t, <<u>>) : t \in KeyTags \cup {Absent}, u \in KeyTags \cup {Absent}}
    \cup {Probe(st, Absent, <<>>) : st \in ProbeStatuses \ {"ok"}}

\* -------------------------------------------------- cross_correlate_offset
\* Audio signals are sequences of integer samples.  Normalisation divides by
\* a positive number, which moves no maximum, so the correlation is computed
\* on n*a[i] - sum(a) and n*b[i] - sum(b): the normalised signals scaled by
\* positive factors, in exact arithmetic.
AnalysisSeconds == 60

RECURSIVE SeqSum(_)
SeqSum(q) == IF q = <<>> THEN 0 ELSE Head(q) + SeqSum(Tail(q))

\* a - a.mean(), times len(a)
Centered(a) == [i \in 1..Len(a) |-> Len(a) * a[i] - SeqSum(a)]

\* correlation[center + lag] of fftconvolve(a, b[::-1], mode="full"):
\* the sum of a[j] * b[j - lag]
RECURSIVE CorrFrom(_, _, _, _)
CorrFrom(a, b, lag, j) ==
    IF j > Len(a) THEN 0
    ELSE (IF j - lag \in 1..Len(b) THEN a[j] * b[j - lag] ELSE 0)
         + CorrFrom(a, b, lag, j + 1)

Correlation(a, b, lag) == CorrFrom(a, b, lag, 1)

\* a peak search that keeps the last of several equal maxima
ArgMax_last(a, b, lo, hi) ==
    CHOOSE m \in lo..hi :
        \A m2 \in lo..hi :
            /\ Correlation(a, b, m2) <= Correlation(a, b, m)
            /\ m2 > m => Correlation(a, b, m2) < Correlation(a, b, m)

\* np.argmax over the lags lo..hi: the first lag that holds the maximum
ArgMax(a, b, lo, hi) ==
    CHOOSE m \in lo..hi :
        \A m2 \in lo..hi :
            /\ Correlation(a, b, m2) <= Correlation(a, b, m)
            /\ m2 < m => Correlation(a, b, m2) < Correlation(a, b, m)

\* the two signals in each other's place: the lag of left against right
CrossCorrelateOffset_swapped(audio_left, audio_right, sample_rate, max_offset_seconds) ==
    LET max_offset_samples == max_offset_seconds * sample_rate
        max_samples == Min(AnalysisSeconds * sample_rate,
                           Min(Len(audio_left), Len(audio_right)))
        a == Centered(SubSeq(audio_left, 1, max_samples))
        b == Centered(SubSeq(audio_right, 1, max_samples))
        center == max_samples - 1
        search_start == Max(0, center - max_offset_samples)
        search_end == Min(2 * max_samples - 1, center + max_offset_samples + 1)
    IN  IF max_samples = 0 THEN Raises("ValueError")
        ELSE Value(Rat(ArgMax(b, a, search_start - center, search_end - 1 - center),
                       sample_rate))

\* a peak search over every lag of the full correlation
CrossCorrelateOffset_unwindowed(audio_left, audio_right, sample_rate, max_offset_seconds) ==
    LET max_samples == Min(AnalysisSeconds * sample_rate,
                           Min(Len(audio_left), Len(audio_right)))
        a == Centered(SubSeq(audio_left, 1, max_samples))
        b == Centered(SubSeq(audio_right, 1, max_samples))
        center == max_samples - 1
    IN  IF max_samples = 0 THEN Raises("ValueError")
        ELSE Value(Rat(ArgMax(a, b, -center, center), sample_rate))

\* cross_correlate_offset(audio_left, audio_right, sample_rate,
\* max_offset_seconds): the offset in seconds, or the ValueError np.argmax
\* raises on an empty search region
CrossCorrelateOffset(audio_left, audio_right, sample_rate, max_offset_seconds) ==
    LET max_offset_samples == max_offset_seconds * sample_rate
        max_samples == Min(AnalysisSeconds * sample_rate,
                           Min(Len(audio_left), Len(audio_right)))
        a == Centered(SubSeq(audio_left, 1, max_samples))
        b == Centered(SubSeq(audio_right, 1, max_samples))
        center == max_samples - 1
        search_start == Max(0, center - max_offset_samples)
        search_end == Min(2 * max_samples - 1, center + max_offset_samples + 1)
    IN  IF max_samples = 0 THEN Raises("ValueError")
        ELSE Value(Rat(ArgMax(a, b, search_start - center, search_end - 1 - center),
                       sample_rate))

\* ------------------------------------------------------------ stitch_videos
VARIABLES
    cal_path,        \* "none" | "exists" | "missing" (names no file) |
                     \* "missing_default" (names calibrations/<date>_cal.json, not there)
    artifact,        \* the JSON content of the file cal_path names
    nLeft, nRight,   \* readable frames of each source (first failed read)
    slack,           \* frames CAP_PROP_FRAME_COUNT reports beyond the readable ones
    frame_offset,
    has_callback,    \* progress_callback is not None
    left_openable, right_openable,
    pc,
    cal_data,
    cap_left, cap_right, writer,   \* "none" | "open" | "closed" | "released"
    pos_left, pos_right,
    total_frames,
    frame_num,
    cur,             \* <<frame_left, frame_right>> of the pair being processed
    written,         \* the output video: the pairs written, in order
    progress_log,    \* the (current, total) arguments of every callback call
    exc,             \* the exception propagating, or "none"
    files,           \* files created so far
    log              \* every external call so far, in order

inputVars == <<cal_path, artifact, nLeft, nRight, slack, frame_offset,
               has_callback, left_openable, right_openable>>
handleVars == <<cap_left, cap_right, writer>>
loopVars == <<pos_left, pos_right, total_frames, frame_num, cur, written,
              progress_log>>
stitchVars == <<inputVars, pc, cal_data, handleVars, loopVars, exc, files, log>>

\* main() of stitch.py and the recording it is run on
VARIABLES
    m_pc,            \* "idle" | "detect" | "sync_audio" | "frame_offset" | "stitching" | "done" | "raised"
    left_start, right_start,   \* the instant (in frames) each camera started at
    tc_left_on, tc_right_on,   \* the camera embeds its start timecode
    ffprobe_ok,      \* ffprobe is installed
    audio_left_src, audio_right_src,   \* what sync_audio gets for each path
    tc_offset,       \* what detect_timecode_offset returned
    offset_sec,      \* what sync_audio returned
    m_exc,
    m_log            \* the sync calls main made, in order

sceneVars == <<left_start, right_start, tc_left_on, tc_right_on, ffprobe_ok,
               audio_left_src, audio_right_src>>
mainVars == <<m_pc, sceneVars, tc_offset, offset_sec, m_exc, m_log>>

\* detect_timecode_offset applied to two ffprobe outputs
VARIABLES tc_pc, probe_left, probe_right, tc_result
tcVars == <<tc_pc, probe_left, probe_right, tc_result>>

\* cross_correlate_offset applied to two signals
VARIABLES
    xc_pc,
    xc_shift,        \* the right signal starts xc_shift samples into the left one
    xc_left, xc_right,
    xc_rate, xc_max_offset,
    xc_result
xcVars == <<xc_pc, xc_shift, xc_left, xc_right, xc_rate, xc_max_offset, xc_result>>

\* calibrate_multi
VARIABLES
    cm_pc,           \* "idle" | "open" | "single" | "loop" | "finish" | "returned" | "raised"
    cm_total,        \* CAP_PROP_FRAME_COUNT of the left source
    cm_num_candidates,
    cm_left_openable, cm_right_openable,
    cm_scenes,       \* what each candidate frame index holds
    cm_i,            \* the position in candidate_indices the loop is at
    cm_results,
    cm_skipped,      \* the candidate indices skipped so far
    cm_tried,        \* the frame indices a calibration attempt was made at, in order
    cm_exc,
    cm_file          \* the records written to <output_dir>/<date>_cal.json, in order
cmInputs == <<cm_total, cm_num_candidates, cm_left_openable, cm_right_openable,
              cm_scenes>>
cmVars == <<cm_pc, cmInputs, cm_i, cm_results, cm_skipped, cm_tried, cm_exc, cm_file>>

\* ---- state of detect_and_match called on its own (SpecDm)
VARIABLES
    dm_pc,           \* "idle", "call", "returned", "raised"
    dm_scene,        \* what the two frames hold (see Scene)
    dm_min_matches,  \* the min_matches argument
    dm_result        \* what the call returned or raised

dmVars == <<dm_pc, dm_scene, dm_min_matches, dm_result>>

\* ---- state of compute_canvas_and_blend called on its own (SpecGeo)
VARIABLES
    geo_pc,          \* "idle", "call", "done"
    geo_left,        \* <<width, height>> of the left frame
    geo_right,       \* <<width, height>> of the right frame
    geo_h,           \* the homography (see Homography)
    geo_cal          \* the canvas geometry the call returns

geoVars == <<geo_pc, geo_left, geo_right, geo_h, geo_cal>>

\* ---- state of stitch_frame called on its own, twice (SpecFrame)
VARIABLES
    sf_pc,           \* "idle", "call", "called_once", "returned", "raised"
    sf_mem,          \* the arrays passed: frame_left, frame_right, H
    sf_given,        \* the same arrays as they were when first passed
    sf_cal,          \* the geometry values passed
    sf_out1,         \* what the first call returned or raised
    sf_out2          \* what the second call returned or raised

sfVars == <<sf_pc, sf_mem, sf_given, sf_cal, sf_out1, sf_out2>>

\* ---- state of cross_correlate_offset called on two signals and then on
\* ---- two signals that differ from them after the analysed samples (SpecLag)
VARIABLES
    lg_pc,           \* "idle", "call", "called", "done"
    lg_left, lg_right,
    lg_rate, lg_max_offset,
    lg_result,       \* what the call returned
    lg_left2, lg_right2,
    lg_result2       \* what the call on lg_left2, lg_right2 returned

lgVars == <<lg_pc, lg_left, lg_right, lg_rate, lg_max_offset, lg_result,
            lg_left2, lg_right2, lg_result2>>

\* ---- state of a CropState object (SpecCrop)
VARIABLES
    cs_pc,           \* "idle", "made"
    pano_width, pano_height,
    output_width, output_height,
    zoom,            \* in hundredths: 100 is zoom 1.0
    center_x, center_y   \* in half pixels: 2 * center_x, 2 * center_y

csVars == <<cs_pc, pano_width, pano_height, output_width, output_height,
            zoom, center_x, center_y>>

\* ---- state of render_broadcast (SpecRender)
VARIABLES
    rb_pc,           \* "idle", "start", "loop", "finally", "returned", "raised"
    rb_rows,         \* the rows read_log returned
    rb_source,       \* how many frames the panorama video yields
    rb_pano,         \* <<pano_width, pano_height>>
    rb_openable,     \* whether the panorama video opens
    rb_i,            \* the row the loop is at, from 1
    rb_frame_num,
    rb_consumed,     \* <<row, source frame>> of every successful read, in order
    rb_written,      \* the rows an output frame was written for, in order
    rb_exc,
    rb_released      \* whether cap and writer were released

rbVars == <<rb_pc, rb_rows, rb_source, rb_pano, rb_openable, rb_i, rb_frame_num,
            rb_consumed, rb_written, rb_exc, rb_released>>

\* ---- state of the two sync detections run on one recording (SpecSync)
VARIABLES
    sy_pc,           \* "idle", "timecode", "audio", "done"
    sy_left_start, sy_right_start,   \* the instant (in frames) each camera started at
    sy_fps,          \* the frame rate of both cameras
    sy_tc,           \* what detect_timecode_offset returned
    sy_audio,        \* what cross_correlate_offset returned
    sy_tc_frames,    \* round(tc_offset * fps)
    sy_audio_frames  \* round(offset_sec * fps)

syVars == <<sy_pc, sy_left_start, sy_right_start, sy_fps, sy_tc, sy_audio,
            sy_tc_frames, sy_audio_frames>>

laterVars == <<lgVars, csVars, rbVars, syVars>>

pureVars == <<dmVars, geoVars, sfVars, laterVars>>

nonStitchVars == <<mainVars, tcVars, xcVars, cmVars, pureVars>>

NoCal == [keys |-> {}, homography |-> <<>>, canvas_width |-> 0, canvas_height |-> 0]

StitchInputs ==
    /\ cal_path \in {"none", "missing", "missing_default", "exists"}
    /\ artifact \in (IF cal_path = "exists" THEN Artifacts ELSE {NoCal})
    /\ nLeft \in 0..MaxFrames
    /\ nRight \in 0..MaxFrames
    /\ slack \in {0, 1}
    /\ frame_offset \in -MaxOffset..MaxOffset
    /\ has_callback \in BOOLEAN
    /\ left_openable \in BOOLEAN
    /\ right_openable \in BOOLEAN

StitchEntry ==
    /\ pc = "calibration"
    /\ cal_data = NoCal
    /\ cap_left = "none" /\ cap_right = "none" /\ writer = "none"
    /\ pos_left = 0 /\ pos_right = 0
    /\ total_frames = 0
    /\ frame_num = 0
    /\ cur = <<-1, -1>>
    /\ written = <<>>
    /\ progress_log = <<>>
    /\ exc = "none"
    /\ files = {}
    /\ log = <<>>

\* cap.read(): the index of the frame returned, or -1 when the read fails
ReadFrame(pos, n) == IF pos < n THEN pos ELSE -1

\* the position of a capture after one read
Advance(pos, n) == IF pos < n THEN pos + 1 ELSE pos

\* a skip loop that runs one time too few
SkipRight_short(k) == IF k > 0 THEN k - 1 ELSE 0

\* leading frames discarded from each source (stitch.py, "Apply frame offset")
SkipRight(k) == IF k > 0 THEN k ELSE 0
SkipLeft(k) == IF k < 0 THEN -k ELSE 0

\* the events of `count` reads from position 0 of a source of n frames
SkipEvents(name, count, n) == [i \in 1..count |-> <<name, ReadFrame(i - 1, n)>>]

TotalFrames(total_left, total_right, k) ==
    Min(total_left - Max(0, -k), total_right - Max(0, k))

\* calibrate(left_path, right_path, frame_index=0): "ok" or what it raises.
\* `matched` says whether feature matching and homography estimation succeed.
CalibrateOutcome(matched) ==
    IF ~left_openable THEN "FileNotFoundError"
    ELSE IF nLeft = 0 THEN "RuntimeError"
    ELSE IF ~right_openable THEN "FileNotFoundError"
    ELSE IF nRight = 0 THEN "RuntimeError"
    ELSE IF ~matched THEN "RuntimeError"
    ELSE "ok"

CalibrateEvents(matched) ==
    <<<<"calibrate_open_left", IF left_openable THEN 1 ELSE 0>>>>
    \o (IF left_openable THEN <<<<"calibrate_read_left", ReadFrame(0, nLeft)>>>> ELSE <<>>)
    \o (IF left_openable /\ nLeft > 0
        THEN <<<<"calibrate_open_right", IF right_openable THEN 1 ELSE 0>>>>
             \o (IF right_openable
                 THEN <<<<"calibrate_read_right", ReadFrame(0, nRight)>>>> ELSE <<>>)
        ELSE <<>>)
    \o (IF CalibrateOutcome(matched) = "ok" THEN <<<<"save_calibration", 0>>>> ELSE <<>>)

\* the file a cal_path names
DefaultCalFile == "calibrations/date_cal.json"

NamedFile(path) ==
    IF path = "missing_default" THEN DefaultCalFile
    ELSE IF path = "none" THEN "none"
    ELSE "named_cal.json"

\* Step 1 with `if cal_path:` alone: a path naming no file is loaded
Calibration_load_named ==
    /\ pc = "calibration"
    /\ UNCHANGED nonStitchVars
    /\ IF cal_path = "exists"
       THEN /\ cal_data' = artifact
            /\ log' = Append(log, <<"load_calibration", 0>>)
            /\ pc' = "validate"
            /\ UNCHANGED <<exc, files>>
       ELSE IF cal_path # "none"
       THEN /\ log' = Append(log, <<"load_calibration", 0>>)
            /\ exc' = "FileNotFoundError"
            /\ pc' = "raised"
            /\ UNCHANGED <<cal_data, files>>
       ELSE \E matched \in BOOLEAN :
            /\ log' = log \o CalibrateEvents(matched)
            /\ IF CalibrateOutcome(matched) = "ok"
               THEN /\ cal_data' = GoodArtifact
                    /\ files' = files \cup {DefaultCalFile}
                    /\ pc' = "validate"
                    /\ exc' = exc
               ELSE /\ exc' = CalibrateOutcome(matched)
                    /\ pc' = "raised"
                    /\ UNCHANGED <<cal_data, files>>
    /\ UNCHANGED <<inputVars, handleVars, loopVars>>

\* Step 1: load the calibration, or run calibrate() on frame 0
Calibration ==
    /\ pc = "calibration"
    /\ UNCHANGED nonStitchVars
    /\ IF cal_path = "exists"
       THEN /\ cal_data' = artifact
            /\ log' = Append(log, <<"load_calibration", 0>>)
            /\ pc' = "validate"
            /\ UNCHANGED <<exc, files>>
       ELSE \E matched \in BOOLEAN :
            /\ log' = log \o CalibrateEvents(matched)
            /\ IF CalibrateOutcome(matched) = "ok"
               THEN /\ cal_data' = GoodArtifact
                    /\ files' = files \cup {DefaultCalFile}
                    /\ pc' = "validate"
                    /\ exc' = exc
               ELSE /\ exc' = CalibrateOutcome(matched)
                    /\ pc' = "raised"
                    /\ UNCHANGED <<cal_data, files>>
    /\ UNCHANGED <<inputVars, handleVars, loopVars>>

\* "Validate calibration data"
Validate ==
    /\ pc = "validate"
    /\ UNCHANGED nonStitchVars
    /\ IF ValidateCalibration(cal_data) = "ok"
       THEN pc' = "open" /\ exc' = exc
       ELSE pc' = "raised" /\ exc' = ValidateCalibration(cal_data)
    /\ UNCHANGED <<inputVars, cal_data, handleVars, loopVars, files, log>>

\* Step 2: cv2.VideoCapture on both paths, then the isOpened check
OpenSources ==
    /\ pc = "open"
    /\ UNCHANGED nonStitchVars
    /\ cap_left' = (IF left_openable THEN "open" ELSE "closed")
    /\ cap_right' = (IF right_openable THEN "open" ELSE "closed")
    /\ log' = log \o << <<"open_left", IF left_openable THEN 1 ELSE 0>>,
                        <<"open_right", IF right_openable THEN 1 ELSE 0>> >>
    /\ IF left_openable /\ right_openable
       THEN pc' = "offset" /\ exc' = exc
       ELSE pc' = "raised" /\ exc' = "FileNotFoundError"
    /\ UNCHANGED <<inputVars, cal_data, writer, loopVars, files>>

\* "Apply frame offset (skip frames on the leading camera)", then total_frames
ApplyOffset ==
    /\ pc = "offset"
    /\ UNCHANGED nonStitchVars
    /\ pos_right' = Min(SkipRight(frame_offset), nRight)
    /\ pos_left' = Min(SkipLeft(frame_offset), nLeft)
    /\ log' = log \o SkipEvents("skip_right", SkipRight(frame_offset), nRight)
                  \o SkipEvents("skip_left", SkipLeft(frame_offset), nLeft)
    /\ total_frames' = TotalFrames(nLeft + slack, nRight + slack, frame_offset)
    /\ pc' = "writer"
    /\ UNCHANGED <<inputVars, cal_data, handleVars, frame_num, cur, written,
                   progress_log, exc, files>>

\* Step 3: cv2.VideoWriter and its isOpened check
CreateWriter ==
    /\ pc = "writer"
    /\ UNCHANGED nonStitchVars
    /\ \E created \in BOOLEAN :
        /\ log' = Append(log, <<"create_writer", IF created THEN 1 ELSE 0>>)
        /\ IF created
           THEN /\ writer' = "open"
                /\ files' = files \cup {"output"}
                /\ pc' = "read"
                /\ exc' = exc
           ELSE /\ writer' = "closed"
                /\ files' = files
                /\ pc' = "raised"
                /\ exc' = "RuntimeError"
    /\ UNCHANGED <<inputVars, cal_data, cap_left, cap_right, loopVars>>

\* a break test that waits for both sources to fail
EitherFailed_both(l, r) == l = -1 /\ r = -1

\* `if not ret_left or not ret_right`
EitherFailed(l, r) == l = -1 \/ r = -1

\* Step 4, top of the loop: one read of each source, then the break test
ReadPair ==
    /\ pc = "read"
    /\ UNCHANGED nonStitchVars
    /\ pos_left' = Advance(pos_left, nLeft)
    /\ pos_right' = Advance(pos_right, nRight)
    /\ cur' = <<ReadFrame(pos_left, nLeft), ReadFrame(pos_right, nRight)>>
    /\ log' = log \o << <<"read_left", ReadFrame(pos_left, nLeft)>>,
                        <<"read_right", ReadFrame(pos_right, nRight)>> >>
    /\ pc' = (IF EitherFailed(ReadFrame(pos_left, nLeft), ReadFrame(pos_right, nRight))
              THEN "finally" ELSE "stitch")
    /\ UNCHANGED <<inputVars, cal_data, handleVars, total_frames, frame_num,
                   written, progress_log, exc, files>>

\* stitch_frame(...) on the pair; it may raise
StitchFrame ==
    /\ pc = "stitch"
    /\ UNCHANGED nonStitchVars
    /\ \E ok \in BOOLEAN :
        /\ log' = Append(log, <<"stitch", frame_num + 1>>)
        /\ pc' = (IF ok THEN "write" ELSE "finally")
        /\ exc' = (IF ok THEN exc ELSE "Exception")
    /\ UNCHANGED <<inputVars, cal_data, handleVars, loopVars, files>>

\* where control goes after a frame is written
AfterWrite(callback) == IF callback THEN "progress" ELSE "read"

\* writer.write(stitched); frame_num += 1
WriteFrame ==
    /\ pc = "write"
    /\ UNCHANGED nonStitchVars
    /\ \E ok \in BOOLEAN :
        IF ok
        THEN /\ written' = Append(written, cur)
             /\ frame_num' = frame_num + 1
             /\ log' = Append(log, <<"write", frame_num + 1>>)
             /\ pc' = AfterWrite(has_callback)
             /\ exc' = exc
        ELSE /\ log' = Append(log, <<"write_failed", frame_num + 1>>)
             /\ pc' = "finally"
             /\ exc' = "Exception"
             /\ UNCHANGED <<written, frame_num>>
    /\ UNCHANGED <<inputVars, cal_data, handleVars, pos_left, pos_right,
                   total_frames, cur, progress_log, files>>

\* a callback reporting the zero-based index of the frame
ProgressArgs_zero_based(n, total) == <<n - 1, total>>

\* the arguments of progress_callback(frame_num, total_frames)
ProgressArgs(n, total) == <<n, total>>

\* progress_callback(frame_num, total_frames); it may raise
Progress ==
    /\ pc = "progress"
    /\ UNCHANGED nonStitchVars
    /\ \E ok \in BOOLEAN :
        /\ progress_log' = Append(progress_log, ProgressArgs(frame_num, total_frames))
        /\ log' = Append(log, <<"callback", ProgressArgs(frame_num, total_frames)[1]>>)
        /\ pc' = (IF ok THEN "read" ELSE "finally")
        /\ exc' = (IF ok THEN exc ELSE "Exception")
    /\ UNCHANGED <<inputVars, cal_data, handleVars, pos_left, pos_right,
                   total_frames, frame_num, cur, written, files>>

\* the handle states the finally block leaves
Released(h) == "released"

\* finally: release both captures and the writer; then return or re-raise
Finally ==
    /\ pc = "finally"
    /\ UNCHANGED nonStitchVars
    /\ cap_left' = Released(cap_left)
    /\ cap_right' = Released(cap_right)
    /\ writer' = Released(writer)
    /\ log' = log \o << <<"release_left", 0>>, <<"release_right", 0>>,
                        <<"release_writer", 0>> >>
    /\ pc' = (IF exc = "none" THEN "returned" ELSE "raised")
    /\ UNCHANGED <<inputVars, cal_data, loopVars, exc, files>>

StitchNext ==
    \/ Calibration
    \/ Validate
    \/ OpenSources
    \/ ApplyOffset
    \/ CreateWriter
    \/ ReadPair
    \/ StitchFrame
    \/ WriteFrame
    \/ Progress
    \/ Finally

vars == <<stitchVars, nonStitchVars>>

\* ----------------------------------------------------- idle values
MainIdle ==
    /\ m_pc = "idle"
    /\ left_start = 0 /\ right_start = 0
    /\ tc_left_on = FALSE /\ tc_right_on = FALSE
    /\ ffprobe_ok = TRUE
    /\ audio_left_src = "video" /\ audio_right_src = "video"
    /\ tc_offset = NoResult
    /\ offset_sec = NoResult
    /\ m_exc = "none"
    /\ m_log = <<>>

TcIdle ==
    /\ tc_pc = "idle"
    /\ probe_left = Probe("ok", Absent, <<>>)
    /\ probe_right = Probe("ok", Absent, <<>>)
    /\ tc_result = NoResult

XcIdle ==
    /\ xc_pc = "idle"
    /\ xc_shift = 0
    /\ xc_left = <<>> /\ xc_right = <<>>
    /\ xc_rate = 1 /\ xc_max_offset = 0
    /\ xc_result = NoResult

CmIdle ==
    /\ cm_pc = "idle"
    /\ cm_total = 0
    /\ cm_num_candidates = 0
    /\ cm_left_openable = TRUE /\ cm_right_openable = TRUE
    /\ cm_scenes = <<>>
    /\ cm_i = 1
    /\ cm_results = <<>>
    /\ cm_skipped = <<>>
    /\ cm_tried = <<>>
    /\ cm_exc = "none"
    /\ cm_file = <<>>

DmIdle ==
    /\ dm_pc = "idle"
    /\ dm_scene = <<>>
    /\ dm_min_matches = 0
    /\ dm_result = <<>>

GeoIdle ==
    /\ geo_pc = "idle"
    /\ geo_left = <<0, 0>>
    /\ geo_right = <<0, 0>>
    /\ geo_h = <<>>
    /\ geo_cal = <<>>

SfIdle ==
    /\ sf_pc = "idle"
    /\ sf_mem = <<>>
    /\ sf_given = <<>>
    /\ sf_cal = <<>>
    /\ sf_out1 = <<>>
    /\ sf_out2 = <<>>

LgIdle ==
    /\ lg_pc = "idle"
    /\ lg_left = <<>> /\ lg_right = <<>>
    /\ lg_rate = 1 /\ lg_max_offset = 0
    /\ lg_result = NoResult
    /\ lg_left2 = <<>> /\ lg_right2 = <<>>
    /\ lg_result2 = NoResult

CsIdle ==
    /\ cs_pc = "idle"
    /\ pano_width = 0 /\ pano_height = 0
    /\ output_width = 0 /\ output_height = 0
    /\ zoom = 0
    /\ center_x = 0 /\ center_y = 0

RbIdle ==
    /\ rb_pc = "idle"
    /\ rb_rows = <<>>
    /\ rb_source = 0
    /\ rb_pano = <<0, 0>>
    /\ rb_openable = TRUE
    /\ rb_i = 1
    /\ rb_frame_num = 0
    /\ rb_consumed = <<>>
    /\ rb_written = <<>>
    /\ rb_exc = "none"
    /\ rb_released = FALSE

SyIdle ==
    /\ sy_pc = "idle"
    /\ sy_left_start = 0 /\ sy_right_start = 0
    /\ sy_fps = 0
    /\ sy_tc = NoResult /\ sy_audio = NoResult
    /\ sy_tc_frames = 0 /\ sy_audio_frames = 0

LaterIdle == LgIdle /\ CsIdle /\ RbIdle /\ SyIdle

PureIdle == DmIdle /\ GeoIdle /\ SfIdle /\ LaterIdle

StitchIdle ==
    /\ cal_path = "exists" /\ artifact = GoodArtifact
    /\ nLeft = 0 /\ nRight = 0 /\ slack = 0
    /\ frame_offset = 0
    /\ has_callback = FALSE
    /\ left_openable = TRUE /\ right_openable = TRUE
    /\ pc = "not_called"
    /\ cal_data = NoCal
    /\ cap_left = "none" /\ cap_right = "none" /\ writer = "none"
    /\ pos_left = 0 /\ pos_right = 0
    /\ total_frames = 0
    /\ frame_num = 0
    /\ cur = <<-1, -1>>
    /\ written = <<>>
    /\ progress_log = <<>>
    /\ exc = "none"
    /\ files = {}
    /\ log = <<>>

\* ------------------------------ SpecTc: detect_timecode_offset on its own
TcInit ==
    /\ tc_pc = "call"
    /\ \/ probe_left \in DrawnProbes /\ probe_right \in KeyProbes
       \/ probe_left \in KeyProbes /\ probe_right \in DrawnProbes
    /\ tc_result = NoResult
    /\ StitchIdle /\ MainIdle /\ XcIdle /\ CmIdle /\ PureIdle

TcDetect ==
    /\ tc_pc = "call"
    /\ tc_result' = DetectTimecodeOffset(probe_left, probe_right)
    /\ tc_pc' = "done"
    /\ UNCHANGED <<probe_left, probe_right, stitchVars, mainVars, xcVars, cmVars, pureVars>>

TcNext == TcDetect

SpecTc == TcInit /\ [][TcNext]_vars

\* ------------------------------ SpecXc: cross_correlate_offset on its own
\* The sound both cameras record: a signal that does not repeat.
World == <<3, -1, 4, 1, -5, 9, -2, 6, 5, -3, 7, -8, 2, 0, 8, -6>>
MinCutLen == 6

\* n samples of the sound, from sample `start` on (0-based)
Cut(start, n) == SubSeq(World, start + 1, start + n)

\* Two recordings of n samples of the same sound, the right one starting
\* `shift` samples after the left one (before it, for shift < 0):
\* right[i] = left[i + shift] wherever both are defined.
CutLeft(shift, n) == Cut(Max(0, -shift), n)
CutRight(shift, n) == Cut(Max(0, shift), n)

XcInit ==
    /\ xc_pc = "call"
    /\ xc_shift \in -MaxShift..MaxShift
    /\ \E n \in MinCutLen..MaxCutLen :
          xc_left = CutLeft(xc_shift, n) /\ xc_right = CutRight(xc_shift, n)
    /\ xc_rate \in {1, 2, 16}
    /\ xc_max_offset \in {1, 30}
    /\ xc_result = NoResult
    /\ StitchIdle /\ MainIdle /\ TcIdle /\ CmIdle /\ PureIdle

XcCorrelate ==
    /\ xc_pc = "call"
    /\ xc_result' = CrossCorrelateOffset(xc_left, xc_right, xc_rate, xc_max_offset)
    /\ xc_pc' = "done"
    /\ UNCHANGED <<xc_shift, xc_left, xc_right, xc_rate, xc_max_offset,
                   stitchVars, mainVars, tcVars, cmVars, pureVars>>

XcNext == XcCorrelate

SpecXc == XcInit /\ [][XcNext]_vars

\* --------------- SpecLag: cross_correlate_offset on signals of any content
\* Short signals of every content, constant ones among them, and signals
\* longer than the AnalysisSeconds * sample_rate samples the call analyses.
Samples == {0, 1}
ShortSignals == UNION {[1..n -> Samples] : n \in 1..MaxSigLen}

\* n samples: the sound from sample `start` on, repeated over the analysed
\* part, and `tail` after it
Tone(n, start, tail) ==
    [i \in 1..n |-> IF i <= AnalysisSeconds
                    THEN World[((i - 1 + start) % Len(World)) + 1]
                    ELSE tail]

LongSignals == {Tone(AnalysisSeconds, 0, 0), Tone(AnalysisSeconds + 1, 0, 0),
                Tone(AnalysisSeconds + 1, 0, 9), Tone(AnalysisSeconds + 1, 1, 9)}

SignalPairs == (ShortSignals \X ShortSignals) \cup (LongSignals \X LongSignals)

\* max_samples of the call (sync_audio.py:91)
Analysed(left, right, rate) == Min(AnalysisSeconds * rate, Min(Len(left), Len(right)))

\* the arguments of the second call analyse as many samples as those of the
\* first and agree with them on these samples
SameAnalysed(left2, right2, left, right, rate) ==
    LET n == Analysed(left, right, rate)
    IN  /\ Analysed(left2, right2, rate) = n
        /\ SubSeq(left2, 1, n) = SubSeq(left, 1, n)
        /\ SubSeq(right2, 1, n) = SubSeq(right, 1, n)

LgInit ==
    /\ lg_pc = "call"
    /\ \E pair \in SignalPairs : lg_left = pair[1] /\ lg_right = pair[2]
    /\ lg_rate \in (IF Len(lg_left) >= AnalysisSeconds THEN {1} ELSE {1, 2})
    /\ lg_max_offset \in {0, 1, 2, 30}
    /\ lg_result = NoResult
    /\ lg_left2 = <<>> /\ lg_right2 = <<>>
    /\ lg_result2 = NoResult
    /\ StitchIdle /\ MainIdle /\ TcIdle /\ XcIdle /\ CmIdle
    /\ DmIdle /\ GeoIdle /\ SfIdle /\ CsIdle /\ RbIdle /\ SyIdle

LgCall ==
    /\ lg_pc = "call"
    /\ lg_result' = CrossCorrelateOffset(lg_left, lg_right, lg_rate, lg_max_offset)
    /\ lg_pc' = "called"
    /\ UNCHANGED <<lg_left, lg_right, lg_rate, lg_max_offset, lg_left2, lg_right2,
                   lg_result2, stitchVars, mainVars, tcVars, xcVars, cmVars,
                   dmVars, geoVars, sfVars, csVars, rbVars, syVars>>

LgCallAgain ==
    /\ lg_pc = "called"
    /\ \E pair \in SignalPairs :
          /\ SameAnalysed(pair[1], pair[2], lg_left, lg_right, lg_rate)
          /\ lg_left2' = pair[1] /\ lg_right2' = pair[2]
          /\ lg_result2' = CrossCorrelateOffset(pair[1], pair[2], lg_rate, lg_max_offset)
    /\ lg_pc' = "done"
    /\ UNCHANGED <<lg_left, lg_right, lg_rate, lg_max_offset, lg_result,
                   stitchVars, mainVars, tcVars, xcVars, cmVars,
                   dmVars, geoVars, sfVars, csVars, rbVars, syVars>>

LgNext == LgCall \/ LgCallAgain

SpecLag == LgInit /\ [][LgNext]_vars

\* ------------------------------------------- SpecCrop: interactive.CropState
\* Lengths are whole pixels, the crop centre is kept in half pixels and the
\* zoom in hundredths, so that pano_width / 2, crop_w / 2 and the zoom
\* steps are exact.
InitialZoom == 100
MinZoom == 0
MaxZoom == 120
JumpZoom == 50          \* the zoom a zoom-in from the full panorama jumps to
SnapZoom == 10          \* below it a zoom-out snaps to the full panorama

\* int(v) of a value given in halves: towards zero
Trunc2(v2) == IF v2 >= 0 THEN v2 \div 2 ELSE -((-v2) \div 2)

\* np.clip(v, lo, hi): minimum(maximum(v, lo), hi)
Clip(v, lo, hi) == Min(Max(v, lo), hi)

\* the crop_w, crop_h, crop_x, crop_y properties; `cs` is the object's fields
CropW(cs) == IF cs.zoom = 0 THEN cs.pano_width ELSE (100 * cs.output_width) \div cs.zoom
CropH(cs) == IF cs.zoom = 0 THEN cs.pano_height ELSE (100 * cs.output_height) \div cs.zoom
CropX(cs) == Max(0, Min(Trunc2(cs.center_x - CropW(cs)), cs.pano_width - CropW(cs)))
CropY(cs) == Max(0, Min(Trunc2(cs.center_y - CropH(cs)), cs.pano_height - CropH(cs)))

\* the object the variables hold
Crop == [pano_width |-> pano_width, pano_height |-> pano_height,
         output_width |-> output_width, output_height |-> output_height,
         zoom |-> zoom, center_x |-> center_x, center_y |-> center_y]

PanoSizes == {<<MaxPanoW, MaxPanoH>>, <<MaxPanoW, 2>>, <<3, MaxPanoH>>, <<1, 1>>}
OutputSizes == {<<4, 2>>, <<2, 1>>}
Moves == {<<-3, 0>>, <<1, 0>>, <<0, -1>>, <<0, 2>>, <<2 * MaxPanoW, 2 * MaxPanoH>>}
ZoomDeltas == {-30, 20}

\* CropState(pano_width, pano_height, output_width, output_height)
CsInit ==
    /\ cs_pc = "made"
    /\ \E p \in PanoSizes : pano_width = p[1] /\ pano_height = p[2]
    /\ \E o \in OutputSizes : output_width = o[1] /\ output_height = o[2]
    /\ zoom = InitialZoom
    /\ center_x = pano_width /\ center_y = pano_height
    /\ StitchIdle /\ MainIdle /\ TcIdle /\ XcIdle /\ CmIdle
    /\ DmIdle /\ GeoIdle /\ SfIdle /\ LgIdle /\ RbIdle /\ SyIdle

\* move(dx, dy)
Move(dx, dy) ==
    /\ cs_pc = "made"
    /\ center_x' = Clip(center_x + 2 * dx, CropW(Crop), 2 * pano_width - CropW(Crop))
    /\ center_y' = Clip(center_y + 2 * dy, CropH(Crop), 2 * pano_height - CropH(Crop))
    /\ UNCHANGED <<cs_pc, pano_width, pano_height, output_width, output_height, zoom,
                   stitchVars, mainVars, tcVars, xcVars, cmVars,
                   dmVars, geoVars, sfVars, lgVars, rbVars, syVars>>

\* adjust_zoom(delta)
AdjustZoom(delta) ==
    /\ cs_pc = "made"
    /\ zoom' = IF zoom = 0 /\ delta > 0 THEN JumpZoom
               ELSE IF Clip(zoom + delta, MinZoom, MaxZoom) < SnapZoom /\ delta < 0
               THEN 0
               ELSE Clip(zoom + delta, MinZoom, MaxZoom)
    /\ UNCHANGED <<cs_pc, pano_width, pano_height, output_width, output_height,
                   center_x, center_y,
                   stitchVars, mainVars, tcVars, xcVars, cmVars,
                   dmVars, geoVars, sfVars, lgVars, rbVars, syVars>>

CsNext ==
    \/ \E d \in Moves : Move(d[1], d[2])
    \/ \E delta \in ZoomDeltas : AdjustZoom(delta)

SpecCrop == CsInit /\ [][CsNext]_vars

\* ------------------------------------------------ SpecCm: calibrate_multi
\* A scene is what one frame index holds: whether each source yields that
\* frame, the number of SIFT descriptors of the right overlap region, the
\* knnMatch result (per left descriptor, the distances of its nearest right
\* descriptors, at most two), whether findHomography fits a model and the
\* number of RANSAC inliers.
MinMatches == 10
MaxCandidates == 4

Percentages == <<10, 25, 50, 75>>

Scene(l, r, kp, ms, h, inl) ==
    [left_ok |-> l, right_ok |-> r, kp_right |-> kp, matches |-> ms,
     h_found |-> h, inliers |-> inl]

ClearMatches(n) == [i \in 1..n |-> <<1, 2>>]

SceneGoodA == Scene(TRUE, TRUE, 12, ClearMatches(12), TRUE, 11)
SceneGoodB == Scene(TRUE, TRUE, 12, ClearMatches(10), TRUE, 9)
SceneRightShort == Scene(TRUE, FALSE, 12, ClearMatches(12), TRUE, 11)
SceneOneFeature == Scene(TRUE, TRUE, 1, [i \in 1..12 |-> <<1>>], TRUE, 11)
SceneFewMatches == Scene(TRUE, TRUE, 12, ClearMatches(9) \o << <<3, 4>> >>, TRUE, 9)
SceneNoHomography == Scene(TRUE, TRUE, 12, ClearMatches(12), FALSE, 0)

Scenes == {SceneGoodA, SceneGoodB, SceneRightShort, SceneOneFeature,
           SceneFewMatches, SceneNoHomography}

\* Lowe's ratio test: m.distance < 0.75 * n.distance
PassesRatio(pair) == 4 * pair[1] < 3 * pair[2]

RECURSIVE GoodMatches(_)
GoodMatches(ms) ==
    IF ms = <<>> THEN <<>>
    ELSE (IF PassesRatio(Head(ms)) THEN <<Head(ms)>> ELSE <<>>) \o GoodMatches(Tail(ms))

\* detect_and_match(img_left, img_right, overlap_fraction, min_matches):
\* "ok", or what it raises.  A right region with one descriptor makes
\* knnMatch return single-element lists, which `for m, n in raw_matches`
\* cannot unpack.
\* what the call does: the exception and the raise statement it comes from,
\* or the point pairs it returns, one per good match
Outcome(e, at, ps) == [exc |-> e, raised_at |-> at, pairs |-> ps]

MatchResult(scene, min_matches) ==
    IF Len(scene.matches) = 0 \/ scene.kp_right = 0
    THEN Outcome("RuntimeError", "no_features", <<>>)
    ELSE IF \E i \in 1..Len(scene.matches) : Len(scene.matches[i]) # 2
    THEN Outcome("ValueError", "unpack", <<>>)
    ELSE IF Len(GoodMatches(scene.matches)) < min_matches
    THEN Outcome("RuntimeError", "insufficient_matches", <<>>)
    ELSE Outcome("none", "", GoodMatches(scene.matches))

DetectAndMatch(scene, min_matches) ==
    IF MatchResult(scene, min_matches).exc = "none" THEN "ok"
    ELSE MatchResult(scene, min_matches).exc

\* compute_homography(pts_left, pts_right)
ComputeHomography(scene) == IF scene.h_found THEN "ok" ELSE "RuntimeError"

\* extract_frame(source_path, frame_index) of a video
ExtractFrame(openable, readable) ==
    IF ~openable THEN "FileNotFoundError"
    ELSE IF ~readable THEN "RuntimeError"
    ELSE "ok"

\* the first failure of the steps of one calibration attempt, or "ok"
AttemptOutcome(scene) ==
    IF ExtractFrame(cm_left_openable, scene.left_ok) # "ok"
    THEN ExtractFrame(cm_left_openable, scene.left_ok)
    ELSE IF ExtractFrame(cm_right_openable, scene.right_ok) # "ok"
    THEN ExtractFrame(cm_right_openable, scene.right_ok)
    ELSE IF DetectAndMatch(scene, MinMatches) # "ok"
    THEN DetectAndMatch(scene, MinMatches)
    ELSE ComputeHomography(scene)

InfoKeys == {"num_matches", "num_inliers", "left_resolution", "right_resolution",
             "timecode_offset"}

\* the array cv2.findHomography returns when it finds a homography: 3x3
FoundH == WithEntry(1, 3, "1")

\* H.tolist(): the rows of the array as nested lists
ToList(H) == [i \in 1..Len(H) |-> [j \in 1..Len(H[i]) |-> H[i][j]]]

\* a candidate dict that lacks the timecode_offset entry
CandidateRecord_no_timecode_offset(idx, scene) ==
    [keys |-> (RequiredKeys \cup InfoKeys \cup {"frame_index", "inlier_ratio"})
                  \ {"timecode_offset"},
     frame_index |-> idx,
     homography |-> ToList(FoundH),
     num_matches |-> Len(GoodMatches(scene.matches)),
     num_inliers |-> scene.inliers,
     inlier_ratio |-> Rat(scene.inliers, Max(Len(GoodMatches(scene.matches)), 1))]

\* the dict calibrate_multi appends for a candidate
CandidateRecord(idx, scene) ==
    [keys |-> RequiredKeys \cup InfoKeys \cup {"frame_index", "inlier_ratio"},
     frame_index |-> idx,
     homography |-> ToList(FoundH),
     num_matches |-> Len(GoodMatches(scene.matches)),
     num_inliers |-> scene.inliers,
     inlier_ratio |-> Rat(scene.inliers, Max(Len(GoodMatches(scene.matches)), 1))]

\* the dict save_calibration builds and calibrate returns
SingleRecord(scene) ==
    [keys |-> RequiredKeys \cup InfoKeys,
     frame_index |-> -1,
     homography |-> ToList(FoundH),
     num_matches |-> Len(GoodMatches(scene.matches)),
     num_inliers |-> scene.inliers,
     inlier_ratio |-> Rat(0, 1)]

\* [min(int(total_frames * p), total_frames - 1) for p in percentages[:num_candidates]]
\* the exact value: total * p is never a float below an integer it should reach
CandidateIndices_rounded(total, num_candidates) ==
    [k \in 1..Min(num_candidates, Len(Percentages)) |->
        Min((total * Percentages[k] + 50) \div 100, total - 1)]

CandidateIndices(total, num_candidates) ==
    [k \in 1..Min(num_candidates, Len(Percentages)) |->
        Min((total * Percentages[k]) \div 100, total - 1)]

\* results.sort(key=num_inliers, reverse=True): stable, best first
RECURSIVE InsertByInliers_ascending(_, _)
InsertByInliers_ascending(r, sorted) ==
    IF sorted = <<>> THEN <<r>>
    ELSE IF Head(sorted).num_inliers <= r.num_inliers
         THEN <<Head(sorted)>> \o InsertByInliers_ascending(r, Tail(sorted))
         ELSE <<r>> \o sorted

RECURSIVE InsertByInliers(_, _)
InsertByInliers(r, sorted) ==
    IF sorted = <<>> THEN <<r>>
    ELSE IF Head(sorted).num_inliers >= r.num_inliers
         THEN <<Head(sorted)>> \o InsertByInliers(r, Tail(sorted))
         ELSE <<r>> \o sorted

RECURSIVE SortByInliers(_)
SortByInliers(rs) ==
    IF rs = <<>> THEN <<>>
    ELSE InsertByInliers(rs[Len(rs)], SortByInliers(SubSeq(rs, 1, Len(rs) - 1)))

\* the frame indices whose content the call may look at
SampledIndices(total, num_candidates) ==
    IF total <= 1 THEN {0}
    ELSE {CandidateIndices(total, num_candidates)[k] :
              k \in 1..Len(CandidateIndices(total, num_candidates))}

CmInit ==
    /\ cm_pc = "open"
    /\ cm_total \in 0..MaxTotal
    /\ cm_num_candidates \in 0..(MaxCandidates + 1)
    /\ cm_left_openable \in BOOLEAN
    /\ cm_right_openable \in BOOLEAN
    /\ cm_scenes \in (IF cm_left_openable /\ cm_right_openable
                      THEN [SampledIndices(cm_total, cm_num_candidates) -> Scenes]
                      ELSE [SampledIndices(cm_total, cm_num_candidates) -> {SceneGoodA}])
    /\ cm_i = 1
    /\ cm_results = <<>>
    /\ cm_skipped = <<>>
    /\ cm_tried = <<>>
    /\ cm_exc = "none"
    /\ cm_file = <<>>
    /\ StitchIdle /\ MainIdle /\ TcIdle /\ XcIdle /\ PureIdle

\* "Determine frame count from left video"
CmOpen ==
    /\ cm_pc = "open"
    /\ IF ~cm_left_openable
       THEN cm_pc' = "raised" /\ cm_exc' = "FileNotFoundError"
       ELSE /\ cm_pc' = (IF cm_total <= 1 THEN "single" ELSE "loop")
            /\ cm_exc' = cm_exc
    /\ UNCHANGED <<cmInputs, cm_i, cm_results, cm_skipped, cm_tried, cm_file,
                   stitchVars, mainVars, tcVars, xcVars, pureVars>>

\* total_frames <= 1: return [calibrate(left_path, right_path, ..., 0, ...)]
CmSingle ==
    /\ cm_pc = "single"
    /\ IF AttemptOutcome(cm_scenes[0]) = "ok"
       THEN /\ cm_results' = <<SingleRecord(cm_scenes[0])>>
            /\ cm_file' = Append(cm_file, SingleRecord(cm_scenes[0]))
            /\ cm_pc' = "returned"
            /\ cm_exc' = cm_exc
       ELSE /\ cm_pc' = "raised"
            /\ cm_exc' = AttemptOutcome(cm_scenes[0])
            /\ UNCHANGED <<cm_results, cm_file>>
    /\ cm_tried' = Append(cm_tried, 0)
    /\ UNCHANGED <<cmInputs, cm_i, cm_skipped, stitchVars, mainVars, tcVars, xcVars, pureVars>>

\* the exceptions the loop's `except` clause catches
Caught_everything(e) == e # "ok"

Caught(e) == e = "RuntimeError"

\* an iteration that saves every successful candidate as calibrate() would
CmCandidate_saves_each ==
    /\ cm_pc = "loop"
    /\ cm_i <= Len(CandidateIndices(cm_total, cm_num_candidates))
    /\ LET idx == CandidateIndices(cm_total, cm_num_candidates)[cm_i]
           out == AttemptOutcome(cm_scenes[idx])
       IN  IF out = "ok"
           THEN /\ cm_results' = Append(cm_results, CandidateRecord(idx, cm_scenes[idx]))
                /\ cm_file' = Append(cm_file, CandidateRecord(idx, cm_scenes[idx]))
                /\ cm_i' = cm_i + 1
                /\ UNCHANGED <<cm_pc, cm_skipped, cm_exc>>
           ELSE IF Caught(out)
           THEN /\ cm_skipped' = Append(cm_skipped, idx)
                /\ cm_i' = cm_i + 1
                /\ UNCHANGED <<cm_pc, cm_results, cm_exc, cm_file>>
           ELSE /\ cm_pc' = "raised"
                /\ cm_exc' = out
                /\ UNCHANGED <<cm_i, cm_results, cm_skipped, cm_file>>
    /\ cm_tried' = Append(cm_tried, CandidateIndices(cm_total, cm_num_candidates)[cm_i])
    /\ UNCHANGED <<cmInputs, stitchVars, mainVars, tcVars, xcVars, pureVars>>

\* one iteration of `for idx in candidate_indices`
CmCandidate ==
    /\ cm_pc = "loop"
    /\ cm_i <= Len(CandidateIndices(cm_total, cm_num_candidates))
    /\ LET idx == CandidateIndices(cm_total, cm_num_candidates)[cm_i]
           out == AttemptOutcome(cm_scenes[idx])
       IN  IF out = "ok"
           THEN /\ cm_results' = Append(cm_results, CandidateRecord(idx, cm_scenes[idx]))
                /\ cm_i' = cm_i + 1
                /\ UNCHANGED <<cm_pc, cm_skipped, cm_exc>>
           ELSE IF Caught(out)
           THEN /\ cm_skipped' = Append(cm_skipped, idx)
                /\ cm_i' = cm_i + 1
                /\ UNCHANGED <<cm_pc, cm_results, cm_exc>>
           ELSE /\ cm_pc' = "raised"
                /\ cm_exc' = out
                /\ UNCHANGED <<cm_i, cm_results, cm_skipped>>
    /\ cm_tried' = Append(cm_tried, CandidateIndices(cm_total, cm_num_candidates)[cm_i])
    /\ UNCHANGED <<cmInputs, cm_file, stitchVars, mainVars, tcVars, xcVars, pureVars>>

\* after the loop: fail on no result, else sort, save the best, return
CmFinish ==
    /\ cm_pc = "loop"
    /\ cm_i > Len(CandidateIndices(cm_total, cm_num_candidates))
    /\ IF cm_results = <<>>
       THEN /\ cm_pc' = "raised"
            /\ cm_exc' = "RuntimeError"
            /\ UNCHANGED <<cm_results, cm_file>>
       ELSE /\ cm_results' = SortByInliers(cm_results)
            /\ cm_file' = Append(cm_file, SortByInliers(cm_results)[1])
            /\ cm_pc' = "returned"
            /\ cm_exc' = cm_exc
    /\ UNCHANGED <<cmInputs, cm_i, cm_skipped, cm_tried, stitchVars, mainVars, tcVars, xcVars, pureVars>>

CmNext ==
    \/ CmOpen
    \/ CmSingle
    \/ CmCandidate
    \/ CmFinish

SpecCm == CmInit /\ [][CmNext]_vars

\* ------------------------------------------------ SpecDm: detect_and_match
\* The knnMatch results the call is tried on: up to MaxMatchCount left
\* descriptors, each with its two nearest right descriptors, at a clear
\* distance (1 against 2) or at the 0.75 boundary (3 against 4); or with one
\* neighbour only, when the right region has a single descriptor.
MaxMatchCount == 11

RECURSIVE MatchLists(_)
MatchLists(n) ==
    IF n = 0 THEN {<<>>}
    ELSE {<<pair>> \o ms : pair \in {<<1, 2>>, <<3, 4>>}, ms \in MatchLists(n - 1)}

SingleLists(n) == [i \in 1..n |-> <<1>>]

DmScenes ==
    {Scene(TRUE, TRUE, 2, ms, TRUE, 0) :
        ms \in UNION {MatchLists(n) : n \in (MaxMatchCount - 2)..MaxMatchCount}}
    \cup {Scene(TRUE, TRUE, 2, ms, TRUE, 0) : ms \in UNION {MatchLists(n) : n \in 0..3}}
    \cup {Scene(TRUE, TRUE, 1, SingleLists(n), TRUE, 0) : n \in 1..MaxMatchCount}
    \cup {Scene(TRUE, TRUE, 0, <<>>, TRUE, 0)}

DmInit ==
    /\ dm_pc = "call"
    /\ dm_scene \in DmScenes
    /\ dm_min_matches \in {MinMatches, 2}
    /\ dm_result = <<>>
    /\ StitchIdle /\ MainIdle /\ TcIdle /\ XcIdle /\ CmIdle /\ GeoIdle /\ SfIdle /\ LaterIdle

\* pts_left, pts_right = detect_and_match(img_left, img_right, overlap_fraction, min_matches)
DmCall ==
    /\ dm_pc = "call"
    /\ dm_result' = MatchResult(dm_scene, dm_min_matches)
    /\ dm_pc' = (IF MatchResult(dm_scene, dm_min_matches).exc = "none"
                 THEN "returned" ELSE "raised")
    /\ UNCHANGED <<dm_scene, dm_min_matches, stitchVars, mainVars, tcVars, xcVars, cmVars,
                   geoVars, sfVars, laterVars>>

DmNext == DmCall

SpecDm == DmInit /\ [][DmNext]_vars

\* ---------------------------------------- SpecGeo: compute_canvas_and_blend
\* Coordinates the homography produces are kept exact in half pixels: a
\* point is <<2x, 2y>>.  The homographies tried are the affine maps
\*     x' = (a2 * x + b2 * y + tx2) / 2,    y' = y + ty2 / 2
\* (a2 = 2, b2 = 0 is a translation; a2 < 0 mirrors; b2 shears).
MaxWidth == 6           \* frame widths: MaxWidth - 2, MaxWidth
MaxHeight == 3          \* frame heights: MaxHeight - 1, MaxHeight
MaxTrans == 3           \* the translation leaves the left frame by up to MaxTrans pixels

Homography(a2, b2, tx2, ty2) == [a2 |-> a2, b2 |-> b2, tx2 |-> tx2, ty2 |-> ty2]

\* cv2.perspectiveTransform of one point, in half pixels
Transform(h, x, y) == <<h.a2 * x + h.b2 * y + h.tx2, 2 * y + h.ty2>>

\* corners in the order [0, 0], [w, 0], [w, h], [0, h]
Corners(w, h) == << <<0, 0>>, <<w, 0>>, <<w, h>>, <<0, h>> >>

WarpedCorners(h, size) ==
    [k \in 1..4 |-> Transform(h, Corners(size[1], size[2])[k][1],
                                 Corners(size[1], size[2])[k][2])]

LeftCorners(size) ==
    [k \in 1..4 |-> <<2 * Corners(size[1], size[2])[k][1],
                      2 * Corners(size[1], size[2])[k][2]>>]

CoordMin(ps, c) == CHOOSE v \in {ps[k][c] : k \in 1..Len(ps)} :
                       \A k \in 1..Len(ps) : v <= ps[k][c]
CoordMax(ps, c) == CHOOSE v \in {ps[k][c] : k \in 1..Len(ps)} :
                       \A k \in 1..Len(ps) : v >= ps[k][c]

\* int(np.floor(v)), int(np.ceil(v)) of a half-pixel value
Floor2_truncating(v2) == IF v2 >= 0 THEN v2 \div 2 ELSE -((-v2) \div 2)

Floor2(v2) == v2 \div 2
Ceil2(v2) == -((-v2) \div 2)

ComputeCanvasAndBlend(left, right, h) ==
    LET warped_corners == WarpedCorners(h, right)
        all_corners == LeftCorners(left) \o warped_corners
        x_min == Floor2(CoordMin(all_corners, 1))
        x_max == Ceil2(CoordMax(all_corners, 1))
        y_min == Floor2(CoordMin(all_corners, 2))
        y_max == Ceil2(CoordMax(all_corners, 2))
        warped_x_min == Floor2(CoordMin(warped_corners, 1))
        warped_x_max == Ceil2(CoordMax(warped_corners, 1))
    IN  [canvas_width |-> x_max - x_min,
         canvas_height |-> y_max - y_min,
         blend_x_start |-> Max(warped_x_min - x_min, 0),
         blend_x_end |-> Min(left[1] - x_min, warped_x_max - x_min),
         offset_x |-> x_min,
         offset_y |-> y_min]

\* the record stitch_videos validates, made of the returned geometry
AsArtifact(cal) ==
    [keys |-> RequiredKeys, homography |-> IdentityH,
     canvas_width |-> cal.canvas_width, canvas_height |-> cal.canvas_height]

\* int(w_left * (1 - overlap_fraction)), int(w_right * overlap_fraction) for
\* the default overlap_fraction 0.35
OverlapLeftStart(w_left) == (w_left * 65) \div 100
OverlapRightEnd(w_right) == (w_right * 35) \div 100

\* The points of the right overlap region that the homography sends into
\* the left overlap region: matched keypoints lie at such points, and
\* findHomography needs four pairs.
Matchable(h, left, right) ==
    {pt \in (0..OverlapRightEnd(right[1])) \X (0..right[2]) :
        /\ Transform(h, pt[1], pt[2])[1] >= 2 * OverlapLeftStart(left[1])
        /\ Transform(h, pt[1], pt[2])[1] <= 2 * left[1]
        /\ Transform(h, pt[1], pt[2])[2] >= 0
        /\ Transform(h, pt[1], pt[2])[2] <= 2 * left[2]}

Estimable(h, left, right) == Cardinality(Matchable(h, left, right)) >= 4

\* stitch_frame: the canvas region the left frame is copied to and the
\* region of the frame that is copied
Placement(canvas_width, canvas_height, offset_x, offset_y, w_left, h_left) ==
    LET left_x == -offset_x
        left_y == -offset_y
        y_start == Max(0, left_y)
        y_end == Min(canvas_height, left_y + h_left)
        x_start == Max(0, left_x)
        x_end == Min(canvas_width, left_x + w_left)
    IN  [y_start |-> y_start, y_end |-> y_end, x_start |-> x_start, x_end |-> x_end,
         src_y_start |-> y_start - left_y, src_y_end |-> y_end - left_y,
         src_x_start |-> x_start - left_x, src_x_end |-> x_end - left_x]

FrameSizes == {MaxWidth - 2, MaxWidth} \X {MaxHeight - 1, MaxHeight}

GeoInit ==
    /\ geo_pc = "call"
    /\ geo_left \in FrameSizes
    /\ geo_right \in FrameSizes
    /\ geo_h \in {Homography(a2, b2, tx2, ty2) :
                     a2 \in {-2, 1, 2, 3}, b2 \in {0, 1},
                     tx2 \in (-2 * MaxTrans)..(2 * (MaxWidth + MaxTrans)),
                     ty2 \in -3..3}
    /\ geo_cal = <<>>
    /\ StitchIdle /\ MainIdle /\ TcIdle /\ XcIdle /\ CmIdle /\ DmIdle /\ SfIdle /\ LaterIdle

\* compute_canvas_and_blend(img_left, img_right, H)
GeoCompute ==
    /\ geo_pc = "call"
    /\ geo_cal' = ComputeCanvasAndBlend(geo_left, geo_right, geo_h)
    /\ geo_pc' = "done"
    /\ UNCHANGED <<geo_left, geo_right, geo_h, stitchVars, mainVars, tcVars, xcVars,
                   cmVars, dmVars, sfVars, laterVars>>

GeoNext == GeoCompute

SpecGeo == GeoInit /\ [][GeoNext]_vars

\* ------------------------------------------------- SpecFrame: stitch_frame
\* An image is [height, width, at], at[<<y, x>>] a BGR pixel <<b, g, r>>,
\* rows and columns counted from 0 as numpy does.  The homographies tried
\* here are whole-pixel translations, for which cv2.warpPerspective copies
\* pixels exactly.  The blend is computed exactly and then cut to an
\* integer as astype(np.uint8) does; for the band widths and channel
\* values tried, float32 arithmetic gives the same integers.
FrameW == 3
FrameH == 2

Black == <<0, 0, 0>>
Red == <<0, 0, 1>>
Green == <<0, 1, 0>>
Bright == <<0, 2, 4>>
Colours == {Black, Red, Green, Bright}

Image(h, w, f) == [height |-> h, width |-> w, at |-> f]

UniformFrame(w, h, c) == Image(h, w, [pos \in (0..(h - 1)) \X (0..(w - 1)) |-> c])

\* np.zeros((canvas_height, canvas_width, 3), dtype=np.uint8)
Zeros(h, w) == UniformFrame(w, h, Black)

\* pixel.sum() > 0
HasContent(pixel) == pixel[1] + pixel[2] + pixel[3] > 0

\* T @ H for T the translation by (-offset_x, -offset_y)
Compose(h, offset_x, offset_y) ==
    Homography(h.a2, h.b2, h.tx2 - 2 * offset_x, h.ty2 - 2 * offset_y)

\* cv2.warpPerspective(frame, h, (width, height)) for a whole-pixel
\* translation h: black where the frame does not reach
WarpPerspective(frame, h, width, height) ==
    Image(height, width,
          [pos \in (0..(height - 1)) \X (0..(width - 1)) |->
              LET sy == pos[1] - h.ty2 \div 2
                  sx == pos[2] - h.tx2 \div 2
              IN  IF sy \in 0..(frame.height - 1) /\ sx \in 0..(frame.width - 1)
                  THEN frame.at[<<sy, sx>>]
                  ELSE Black])

\* the indices a Python slice start:stop selects of n: a negative bound
\* counts from the end, and bounds are clipped to 0..n
SliceBound(b, n) == IF b < 0 THEN Max(b + n, 0) ELSE Min(b, n)

Slice(start, stop, n) ==
    [k \in 1..Max(SliceBound(stop, n) - SliceBound(start, n), 0) |->
        SliceBound(start, n) + k - 1]

\* numpy broadcasting of a source axis onto a target axis
Broadcasts(src, dst) == Len(src) = Len(dst) \/ Len(src) = 1

\* whether the shapes of the two sides of the placement assignment fit;
\* numpy raises ValueError when they do not
PlacementFits(canvas, frame_left, p) ==
    /\ Broadcasts(Slice(p.src_y_start, p.src_y_end, frame_left.height),
                  Slice(p.y_start, p.y_end, canvas.height))
    /\ Broadcasts(Slice(p.src_x_start, p.src_x_end, frame_left.width),
                  Slice(p.x_start, p.x_end, canvas.width))

\* canvas[y_start:y_end, x_start:x_end] = frame_left[src_y_start:src_y_end, src_x_start:src_x_end]
PlaceLeft(canvas, frame_left, p) ==
    LET rows == Slice(p.y_start, p.y_end, canvas.height)
        cols == Slice(p.x_start, p.x_end, canvas.width)
        src_rows == Slice(p.src_y_start, p.src_y_end, frame_left.height)
        src_cols == Slice(p.src_x_start, p.src_x_end, frame_left.width)
        SrcOf(k, src) == IF Len(src) = 1 THEN src[1] ELSE src[k]
    IN                Image(canvas.height, canvas.width,
                   [pos \in DOMAIN canvas.at |->
                       IF /\ \E i \in 1..Len(rows) : rows[i] = pos[1]
                          /\ \E j \in 1..Len(cols) : cols[j] = pos[2]
                       THEN LET i == CHOOSE i \in 1..Len(rows) : rows[i] = pos[1]
                                j == CHOOSE j \in 1..Len(cols) : cols[j] = pos[2]
                            IN  frame_left.at[<<SrcOf(i, src_rows), SrcOf(j, src_cols)>>]
                       ELSE canvas.at[pos]])

\* one channel of (1 - alpha) * left + alpha * right for alpha = i / d, cut
\* to an integer by astype(np.uint8)
BlendChannel(l, r, i, d) == ((d - i) * l + i * r) \div d

BlendPixel_unmasked(left, right, i, d) ==
    <<BlendChannel(left[1], right[1], i, d),
      BlendChannel(left[2], right[2], i, d),
      BlendChannel(left[3], right[3], i, d)>>

\* one pixel of `blended`: mixed where both columns have content, the
\* right pixel where only the right has, else the left pixel
BlendPixel(left, right, i, d) ==
    IF HasContent(left) /\ HasContent(right)
    THEN <<BlendChannel(left[1], right[1], i, d),
           BlendChannel(left[2], right[2], i, d),
           BlendChannel(left[3], right[3], i, d)>>
    ELSE IF ~HasContent(left) /\ HasContent(right) THEN right
    ELSE left

\* the body of `for i in range(blend_w)` for one i
BlendColumn(canvas, warped_right, blend_x_start, blend_w, i) ==
    IF blend_x_start + i \in 0..(canvas.width - 1)
    THEN Image(canvas.height, canvas.width,
               [pos \in DOMAIN canvas.at |->
                   IF pos[2] = blend_x_start + i
                   THEN BlendPixel(canvas.at[pos], warped_right.at[pos], i,
                                   Max(blend_w - 1, 1))
                   ELSE canvas.at[pos]])
    ELSE canvas

RECURSIVE BlendFrom(_, _, _, _, _)
BlendFrom(canvas, warped_right, blend_x_start, blend_w, i) ==
    IF i >= blend_w THEN canvas
    ELSE BlendFrom(BlendColumn(canvas, warped_right, blend_x_start, blend_w, i),
                   warped_right, blend_x_start, blend_w, i + 1)

\* "Linear blend in overlap region"
Blend(canvas, warped_right, blend_x_start, blend_x_end) ==
    IF blend_x_start < blend_x_end /\ blend_x_start >= 0
    THEN BlendFrom(canvas, warped_right, blend_x_start, blend_x_end - blend_x_start, 0)
    ELSE canvas

FillRightOnly_none(canvas, warped_right) == canvas

\* "Fill remaining right-only region"
FillRightOnly(canvas, warped_right) ==
    Image(canvas.height, canvas.width,
          [pos \in DOMAIN canvas.at |->
              IF ~HasContent(canvas.at[pos]) /\ HasContent(warped_right.at[pos])
              THEN warped_right.at[pos]
              ELSE canvas.at[pos]])

\* The arrays the caller passes are kept in `mem`, so that a write to one
\* of them would show.  H_adjusted = T @ H makes a new matrix.
Arrays(frame_left, frame_right, H) ==
    [frame_left |-> frame_left, frame_right |-> frame_right, H |-> H]

AdjustHomography_in_place(mem, offset_x, offset_y) ==
    [mem |-> [mem EXCEPT !.H = Compose(mem.H, offset_x, offset_y)],
     H_adjusted |-> Compose(mem.H, offset_x, offset_y)]

AdjustHomography(mem, offset_x, offset_y) ==
    [mem |-> mem, H_adjusted |-> Compose(mem.H, offset_x, offset_y)]

\* stitch_frame(frame_left, frame_right, H, canvas_width, canvas_height,
\*              offset_x, offset_y, blend_x_start, blend_x_end):
\* the arrays after the call, and the canvas returned or the exception
StitchFrameCall(mem, cal) ==
    LET adj == AdjustHomography(mem, cal.offset_x, cal.offset_y)
        warped_right == WarpPerspective(adj.mem.frame_right, adj.H_adjusted,
                                        cal.canvas_width, cal.canvas_height)
        canvas == Zeros(cal.canvas_height, cal.canvas_width)
        p == Placement(cal.canvas_width, cal.canvas_height, cal.offset_x, cal.offset_y,
                       adj.mem.frame_left.width, adj.mem.frame_left.height)
    IN  IF ~PlacementFits(canvas, adj.mem.frame_left, p)
        THEN [mem |-> adj.mem, exc |-> "ValueError", canvas |-> canvas]
        ELSE [mem |-> adj.mem, exc |-> "none",
              canvas |-> FillRightOnly(
                             Blend(PlaceLeft(canvas, adj.mem.frame_left, p), warped_right,
                                   cal.blend_x_start, cal.blend_x_end),
                             warped_right)]

\* the records a calibration file may hold for a pair of frames: the one
\* compute_canvas_and_blend returns, or that one with one value moved by
\* one or by more than a frame width; stitch_videos lets only positive
\* canvas sizes through
CalFields == {"canvas_width", "canvas_height", "blend_x_start", "blend_x_end",
              "offset_x", "offset_y"}

Moved(cal, field, delta) ==
    [f \in CalFields |-> IF f = field THEN cal[f] + delta ELSE cal[f]]

RecordsFor(left, right, h) ==
    {cal \in {ComputeCanvasAndBlend(left, right, h)}
               \cup {Moved(ComputeCanvasAndBlend(left, right, h), f, d) :
                        f \in CalFields, d \in {-1, 1, FrameW + 1}} :
        cal.canvas_width > 0 /\ cal.canvas_height > 0}

NotCalled == [exc |-> "not_called", canvas |-> Zeros(0, 0)]

SfInit ==
    /\ sf_pc = "call"
    /\ \E cl \in Colours, cr \in Colours, tx \in (1 - FrameW)..(FrameW + 1), ty \in -1..1 :
          /\ sf_mem = Arrays(UniformFrame(FrameW, FrameH, cl), UniformFrame(FrameW, FrameH, cr),
                             Homography(2, 0, 2 * tx, 2 * ty))
          /\ sf_cal \in RecordsFor(<<FrameW, FrameH>>, <<FrameW, FrameH>>,
                                   Homography(2, 0, 2 * tx, 2 * ty))
    /\ sf_given = sf_mem
    /\ sf_out1 = NotCalled
    /\ sf_out2 = NotCalled
    /\ StitchIdle /\ MainIdle /\ TcIdle /\ XcIdle /\ CmIdle /\ DmIdle /\ GeoIdle /\ LaterIdle

\* the first call of stitch_frame
SfCall ==
    /\ sf_pc = "call"
    /\ sf_mem' = StitchFrameCall(sf_mem, sf_cal).mem
    /\ sf_out1' = [exc |-> StitchFrameCall(sf_mem, sf_cal).exc,
                   canvas |-> StitchFrameCall(sf_mem, sf_cal).canvas]
    /\ sf_pc' = (IF StitchFrameCall(sf_mem, sf_cal).exc = "none" THEN "called_once" ELSE "raised")
    /\ UNCHANGED <<sf_given, sf_cal, sf_out2, stitchVars, mainVars, tcVars, xcVars, cmVars,
                   dmVars, geoVars, laterVars>>

\* a second call with the same arguments
SfCallAgain ==
    /\ sf_pc = "called_once"
    /\ sf_mem' = StitchFrameCall(sf_mem, sf_cal).mem
    /\ sf_out2' = [exc |-> StitchFrameCall(sf_mem, sf_cal).exc,
                   canvas |-> StitchFrameCall(sf_mem, sf_cal).canvas]
    /\ sf_pc' = (IF StitchFrameCall(sf_mem, sf_cal).exc = "none" THEN "returned" ELSE "raised")
    /\ UNCHANGED <<sf_given, sf_cal, sf_out1, stitchVars, mainVars, tcVars, xcVars, cmVars,
                   dmVars, geoVars, laterVars>>

SfNext ==
    \/ SfCall
    \/ SfCallAgain

SpecFrame == SfInit /\ [][SfNext]_vars

\* ------------------------------------------- SpecRender: render_broadcast
\* A log row is what csv.DictReader gives for one line: the kind of its four
\* crop cells and, when they are integer literals, their values.
\*   "ints": integer literals;  "text": a cell int() rejects (ValueError);
\*   "none": a line shorter than the header, whose missing cells are None
Row(kind, x, y, w, h) == [cells |-> kind, crop_x |-> x, crop_y |-> y, crop_w |-> w, crop_h |-> h]

RowInside == Row("ints", 1, 0, 2, 1)
RowOversize == Row("ints", -1, 0, 99, 99)
RowEmpty == Row("ints", 0, 0, 0, 1)
RowText == Row("text", 0, 0, 0, 0)
RowShort == Row("none", 0, 0, 0, 0)
Rows == {RowInside, RowOversize, RowEmpty, RowText, RowShort}

RenderOutput == <<4, 2>>                  \* output_width, output_height
RenderPanos == {<<8, 2>>, <<2, 2>>}       \* wider and narrower than the output's shape

\* int(row["crop_x"]) ... int(row["crop_h"]): "ok", or the exception
ParseCrop(row) ==
    IF row.cells = "ints" THEN "ok"
    ELSE IF row.cells = "text" THEN "ValueError"
    ELSE "TypeError"

\* "Clamp to source bounds" and "Validate crop dimensions": <<x, y, w, h>>
ClampCrop(row, pano) ==
    LET crop_x == Max(0, Min(row.crop_x, pano[1] - row.crop_w))
        crop_y == Max(0, Min(row.crop_y, pano[2] - row.crop_h))
        crop_w == Min(row.crop_w, pano[1] - crop_x)
        crop_h == Min(row.crop_h, pano[2] - crop_y)
    IN  IF crop_w <= 0 \/ crop_h <= 0 THEN <<0, 0, pano[1], pano[2]>>
        ELSE <<crop_x, crop_y, crop_w, crop_h>>

\* the letterboxing of a full-panorama crop: "ok", or the exception of
\* cv2.resize (empty target) or of the assignment of the scaled image to
\* the rows y_offset .. y_offset + scaled_h of the output frame
Letterbox(crop, out) ==
    LET scaled_h == (crop[4] * out[1]) \div crop[3]
        y_offset == (out[2] - scaled_h) \div 2
    IN  IF scaled_h = 0 THEN "cv2.error"
        ELSE IF Broadcasts([k \in 1..scaled_h |-> k],
                           Slice(y_offset, y_offset + scaled_h, out[2]))
        THEN "ok"
        ELSE "ValueError"

\* crop, scale and letterbox one frame: "ok", or the exception
MakeOutputFrame(row, pano, out) ==
    LET crop == ClampCrop(row, pano)
    IN  IF crop[3] = pano[1] /\ crop[4] = pano[2] THEN Letterbox(crop, out)
        ELSE "ok"

RECURSIVE RowLists(_)
RowLists(n) ==
    IF n = 0 THEN {<<>>}
    ELSE {Append(q, r) : q \in RowLists(n - 1), r \in Rows}

RbInit ==
    /\ rb_pc = "start"
    /\ rb_rows \in UNION {RowLists(n) : n \in 1..MaxRows}
    /\ rb_source \in 0..MaxSource
    /\ rb_pano \in RenderPanos
    /\ rb_openable \in BOOLEAN
    /\ rb_i = 1
    /\ rb_frame_num = 0
    /\ rb_consumed = <<>>
    /\ rb_written = <<>>
    /\ rb_exc = "none"
    /\ rb_released = FALSE
    /\ StitchIdle /\ MainIdle /\ TcIdle /\ XcIdle /\ CmIdle
    /\ DmIdle /\ GeoIdle /\ SfIdle /\ LgIdle /\ CsIdle /\ SyIdle

\* "Open source video" up to the creation of the writer
RbOpen ==
    /\ rb_pc = "start"
    /\ IF rb_openable
       THEN rb_pc' = "loop" /\ rb_exc' = rb_exc
       ELSE rb_pc' = "raised" /\ rb_exc' = "FileNotFoundError"
    /\ UNCHANGED <<rb_rows, rb_source, rb_pano, rb_openable, rb_i, rb_frame_num,
                   rb_consumed, rb_written, rb_released,
                   stitchVars, mainVars, tcVars, xcVars, cmVars,
                   dmVars, geoVars, sfVars, lgVars, csVars, syVars>>

\* one iteration of `for row in log_rows`
RbRow ==
    /\ rb_pc = "loop"
    /\ rb_i <= Len(rb_rows)
    /\ IF Len(rb_consumed) >= rb_source
       THEN \* cap.read() fails: break
            /\ rb_pc' = "finally"
            /\ UNCHANGED <<rb_i, rb_frame_num, rb_consumed, rb_written, rb_exc>>
       ELSE /\ rb_consumed' = Append(rb_consumed, <<rb_i, Len(rb_consumed)>>)
            /\ IF ParseCrop(rb_rows[rb_i]) = "ValueError"
               THEN \* caught: skipping
                    /\ rb_frame_num' = rb_frame_num + 1
                    /\ rb_i' = rb_i + 1
                    /\ UNCHANGED <<rb_pc, rb_written, rb_exc>>
               ELSE IF ParseCrop(rb_rows[rb_i]) # "ok"
               THEN /\ rb_pc' = "finally"
                    /\ rb_exc' = ParseCrop(rb_rows[rb_i])
                    /\ UNCHANGED <<rb_i, rb_frame_num, rb_written>>
               ELSE IF MakeOutputFrame(rb_rows[rb_i], rb_pano, RenderOutput) # "ok"
               THEN /\ rb_pc' = "finally"
                    /\ rb_exc' = MakeOutputFrame(rb_rows[rb_i], rb_pano, RenderOutput)
                    /\ UNCHANGED <<rb_i, rb_frame_num, rb_written>>
               ELSE /\ rb_written' = Append(rb_written, rb_i)
                    /\ rb_frame_num' = rb_frame_num + 1
                    /\ rb_i' = rb_i + 1
                    /\ UNCHANGED <<rb_pc, rb_exc>>
    /\ UNCHANGED <<rb_rows, rb_source, rb_pano, rb_openable, rb_released,
                   stitchVars, mainVars, tcVars, xcVars, cmVars,
                   dmVars, geoVars, sfVars, lgVars, csVars, syVars>>

\* the `finally` clause, then the return or the exception on its way out
RbFinally ==
    /\ \/ rb_pc = "loop" /\ rb_i > Len(rb_rows)
       \/ rb_pc = "finally"
    /\ rb_released' = TRUE
    /\ rb_pc' = IF rb_exc = "none" THEN "returned" ELSE "raised"
    /\ UNCHANGED <<rb_rows, rb_source, rb_pano, rb_openable, rb_i, rb_frame_num,
                   rb_consumed, rb_written, rb_exc,
                   stitchVars, mainVars, tcVars, xcVars, cmVars,
                   dmVars, geoVars, sfVars, lgVars, csVars, syVars>>

RbNext == RbOpen \/ RbRow \/ RbFinally

SpecRender == RbInit /\ [][RbNext]_vars

\* ------------------------------------------- SpecMain: main() of stitch.py
\* Two cameras record the same scene.  The left one starts at instant
\* left_start and the right one at right_start (in frames): frame i of the
\* left source shows instant left_start + i, frame j of the right source
\* instant right_start + j.  A camera that embeds timecode tags its file
\* with its start instant; the audio of a file is the World from its start.
\* The model's clock has one audio sample per frame at NominalFps.
MaxOffsetSeconds == 30
AudioLen == 8

VideoFps == NominalFps
SyncSampleRate == NominalFps

\* HH:MM:SS:FF of an instant
TagOfStart(start) ==
    <<Num(0), Colon, Num(0), Colon, Num(start \div NominalFps), Colon,
      Num(start % NominalFps)>>

ProbeOf(embeds, start) ==
    IF ~ffprobe_ok THEN Probe("not_installed", Absent, <<>>)
    ELSE IF embeds THEN Probe("ok", TagOfStart(start), <<>>)
    ELSE Probe("ok", Absent, <<>>)

\* what sync_audio is given for one path: a video whose audio ffmpeg can or
\* cannot extract, or a .wav file with its own sample rate
AudioSources == {"video", "video_no_audio", "wav", "wav_other_rate"}
IsWav(src) == src \in {"wav", "wav_other_rate"}

\* the sample rate load_audio reports
LoadedRate(src, sample_rate) ==
    IF src = "wav_other_rate" THEN 2 * sample_rate ELSE sample_rate

\* the samples load_audio returns for a recording started at `start`
AudioOf(start, rate) ==
    Cut(start * (rate \div VideoFps), AudioLen)

\* the sync calls sync_audio makes, in order
SyncAudioEvents(src_left, src_right, sample_rate) ==
    (IF IsWav(src_left) THEN <<>> ELSE <<"extract_left">>)
    \o (IF src_left = "video_no_audio" THEN <<>>
        ELSE (IF IsWav(src_right) THEN <<>> ELSE <<"extract_right">>)
             \o (IF src_right = "video_no_audio" THEN <<>>
                 ELSE <<"load_left", "load_right">>
                      \o (IF LoadedRate(src_left, sample_rate)
                               = LoadedRate(src_right, sample_rate)
                          THEN <<"cross_correlate">> ELSE <<>>)))

\* a sync_audio that correlates whatever rates it loaded
SyncAudio_no_rate_check(src_left, src_right, sample_rate, max_offset) ==
    IF src_left = "video_no_audio" THEN Raises("RuntimeError")
    ELSE IF src_right = "video_no_audio" THEN Raises("RuntimeError")
    ELSE CrossCorrelateOffset(AudioOf(left_start, LoadedRate(src_left, sample_rate)),
                              AudioOf(right_start, LoadedRate(src_right, sample_rate)),
                              LoadedRate(src_left, sample_rate), max_offset)

\* sync_audio(left_path, right_path, sample_rate, max_offset)
SyncAudio(src_left, src_right, sample_rate, max_offset) ==
    IF src_left = "video_no_audio" THEN Raises("RuntimeError")
    ELSE IF src_right = "video_no_audio" THEN Raises("RuntimeError")
    ELSE IF LoadedRate(src_left, sample_rate) # LoadedRate(src_right, sample_rate)
         THEN Raises("RuntimeError")
    ELSE CrossCorrelateOffset(AudioOf(left_start, LoadedRate(src_left, sample_rate)),
                              AudioOf(right_start, LoadedRate(src_right, sample_rate)),
                              LoadedRate(src_left, sample_rate), max_offset)

\* Python's round(): to the nearest integer, halves to the even one
Round(n, d) ==
    LET q == n \div d
        r == n - q * d
    IN  IF 2 * r < d THEN q
        ELSE IF 2 * r > d THEN q + 1
        ELSE IF q % 2 = 0 THEN q ELSE q + 1

\* round(offset * fps)
FrameOffsetOf(offset, fps) == Round(offset.num * fps, offset.den)

MainInit ==
    /\ m_pc = "detect"
    /\ left_start \in 0..MaxSkew
    /\ right_start \in 0..MaxSkew
    /\ tc_left_on \in BOOLEAN
    /\ tc_right_on \in BOOLEAN
    /\ ffprobe_ok \in BOOLEAN
    /\ audio_left_src \in AudioSources
    /\ audio_right_src \in AudioSources
    /\ tc_offset = NoResult
    /\ offset_sec = NoResult
    /\ m_exc = "none"
    /\ m_log = <<>>
    \* the arguments main passes on to stitch_videos
    /\ cal_path \in {"none", "exists"}
    /\ artifact = (IF cal_path = "exists" THEN GoodArtifact ELSE NoCal)
    /\ nLeft \in 0..MaxFrames
    /\ nRight \in 0..MaxFrames
    /\ slack = 0
    /\ frame_offset = 0
    /\ has_callback = FALSE
    \* a .wav file is no video
    /\ left_openable = ~IsWav(audio_left_src)
    /\ right_openable = ~IsWav(audio_right_src)
    /\ pc = "not_called"
    /\ cal_data = NoCal
    /\ cap_left = "none" /\ cap_right = "none" /\ writer = "none"
    /\ pos_left = 0 /\ pos_right = 0
    /\ total_frames = 0
    /\ frame_num = 0
    /\ cur = <<-1, -1>>
    /\ written = <<>>
    /\ progress_log = <<>>
    /\ exc = "none"
    /\ files = {}
    /\ log = <<>>
    /\ TcIdle /\ XcIdle /\ CmIdle /\ PureIdle

\* where main goes with what detect_timecode_offset gave it
AfterDetect_always_audio(tc) ==
    IF tc.kind \notin {"value", "none"} THEN "raised" ELSE "sync_audio"

AfterDetect(tc) ==
    IF tc.kind = "value" THEN "frame_offset"
    ELSE IF tc.kind = "none" THEN "sync_audio"
    ELSE "raised"

\* tc_offset = detect_timecode_offset(args.left, args.right)
MainDetectTimecode ==
    /\ m_pc = "detect"
    /\ LET tc == DetectTimecodeOffset(ProbeOf(tc_left_on, left_start),
                                      ProbeOf(tc_right_on, right_start))
       IN  /\ tc_offset' = tc
           /\ m_pc' = AfterDetect(tc)
           /\ m_exc' = (IF tc.kind \in {"value", "none"} THEN m_exc ELSE tc.kind)
    /\ m_log' = Append(m_log, "detect_timecode")
    /\ UNCHANGED <<sceneVars, offset_sec, stitchVars, tcVars, xcVars, cmVars, pureVars>>

\* offset_sec = sync_audio(args.left, args.right)
MainSyncAudio ==
    /\ m_pc = "sync_audio"
    /\ LET r == SyncAudio(audio_left_src, audio_right_src, SyncSampleRate,
                          MaxOffsetSeconds)
       IN  /\ offset_sec' = r
           /\ m_pc' = (IF r.kind = "value" THEN "frame_offset" ELSE "raised")
           /\ m_exc' = (IF r.kind = "value" THEN m_exc ELSE r.kind)
    /\ m_log' = m_log \o <<"sync_audio">>
                      \o SyncAudioEvents(audio_left_src, audio_right_src, SyncSampleRate)
    /\ UNCHANGED <<sceneVars, tc_offset, stitchVars, tcVars, xcVars, cmVars, pureVars>>

\* the offset main converts to frames
SyncOffset == IF tc_offset.kind = "value" THEN tc_offset.val ELSE offset_sec.val

\* fps = get_video_info(args.left)["fps"]; frame_offset = round(offset * fps);
\* then the call of stitch_videos
MainFrameOffset ==
    /\ m_pc = "frame_offset"
    /\ IF left_openable
       THEN /\ frame_offset' = FrameOffsetOf(SyncOffset, VideoFps)
            /\ pc' = "calibration"
            /\ m_pc' = "stitching"
            /\ m_exc' = m_exc
            /\ m_log' = Append(m_log, "stitch_videos")
       ELSE /\ m_pc' = "raised"
            /\ m_exc' = "FileNotFoundError"
            /\ UNCHANGED <<frame_offset, pc, m_log>>
    /\ UNCHANGED <<sceneVars, tc_offset, offset_sec, tcVars, xcVars, cmVars, pureVars,
                   cal_path, artifact, nLeft, nRight, slack, has_callback,
                   left_openable, right_openable, cal_data, handleVars,
                   loopVars, exc, files, log>>

\* stitch_videos returned or raised (main passes no progress callback, so
\* the Progress step is no part of MainNext)
MainFinish ==
    /\ m_pc = "stitching"
    /\ pc \in {"returned", "raised"}
    /\ m_pc' = (IF pc = "returned" THEN "done" ELSE "raised")
    /\ m_exc' = exc
    /\ UNCHANGED <<sceneVars, tc_offset, offset_sec, m_log, stitchVars, tcVars, xcVars, cmVars, pureVars>>

MainNext ==
    \/ MainDetectTimecode
    \/ MainSyncAudio
    \/ MainFrameOffset
    \/ MainFinish
    \/ Calibration
    \/ Validate
    \/ OpenSources
    \/ ApplyOffset
    \/ CreateWriter
    \/ ReadPair
    \/ StitchFrame
    \/ WriteFrame
    \/ Finally

SpecMain == MainInit /\ [][MainNext]_vars

\* ------------------------- SpecSync: both sync detections, one recording
\* Two cameras of frame rate sy_fps record the same sound; both embed their
\* start timecode and both files carry audio.  The timecode detection and
\* the audio detection are run on the same pair of files and each result is
\* converted to frames as main does.  Audio has one sample per frame.
VideoRates == {24, 25, 30}

\* HH:MM:SS:FF of an instant, FF counting the frames of the camera's rate
TagAt(start, fps) ==
    <<Num(0), Colon, Num(0), Colon, Num(start \div fps), Colon, Num(start % fps)>>

\* the samples of a recording started at `start`
AudioAt(start) == Cut(start, AudioLen)

SyInit ==
    /\ sy_pc = "timecode"
    /\ sy_left_start \in 0..MaxSyncSkew
    /\ sy_right_start \in 0..MaxSyncSkew
    /\ sy_fps \in VideoRates
    /\ sy_tc = NoResult /\ sy_audio = NoResult
    /\ sy_tc_frames = 0 /\ sy_audio_frames = 0
    /\ StitchIdle /\ MainIdle /\ TcIdle /\ XcIdle /\ CmIdle
    /\ DmIdle /\ GeoIdle /\ SfIdle /\ LgIdle /\ CsIdle /\ RbIdle

\* tc_offset = detect_timecode_offset(left, right); round(tc_offset * fps)
SyTimecode ==
    /\ sy_pc = "timecode"
    /\ sy_tc' = DetectTimecodeOffset(Probe("ok", TagAt(sy_left_start, sy_fps), <<>>),
                                     Probe("ok", TagAt(sy_right_start, sy_fps), <<>>))
    /\ sy_tc_frames' = FrameOffsetOf(sy_tc'.val, sy_fps)
    /\ sy_pc' = "audio"
    /\ UNCHANGED <<sy_left_start, sy_right_start, sy_fps, sy_audio, sy_audio_frames,
                   stitchVars, mainVars, tcVars, xcVars, cmVars,
                   dmVars, geoVars, sfVars, lgVars, csVars, rbVars>>

\* offset_sec = sync_audio(left, right); round(offset_sec * fps)
SyAudio ==
    /\ sy_pc = "audio"
    /\ sy_audio' = CrossCorrelateOffset(AudioAt(sy_left_start), AudioAt(sy_right_start),
                                        sy_fps, MaxOffsetSeconds)
    /\ sy_audio_frames' = FrameOffsetOf(sy_audio'.val, sy_fps)
    /\ sy_pc' = "done"
    /\ UNCHANGED <<sy_left_start, sy_right_start, sy_fps, sy_tc, sy_tc_frames,
                   stitchVars, mainVars, tcVars, xcVars, cmVars,
                   dmVars, geoVars, sfVars, lgVars, csVars, rbVars>>

SyNext == SyTimecode \/ SyAudio

SpecSync == SyInit /\ [][SyNext]_vars

\* ----------------------------------- Spec: stitch_videos called directly
Init == StitchInputs /\ StitchEntry /\ MainIdle /\ TcIdle /\ XcIdle /\ CmIdle /\ PureIdle

Next == StitchNext

Spec == Init /\ [][Next]_vars

Terminated == pc \in {"returned", "raised"}

FairSpec == Spec /\ WF_vars(Next)

\* ------------------------------------------------------------------ claims

\* max(0, min(L - max(0, -k), R - max(0, k)))
ExpectedCount(L, R, k) == Max(0, Min(L - Max(0, -k), R - Max(0, k)))

ExpectedPairs(L, R, k) ==
    [n \in 1..ExpectedCount(L, R, k) |-> <<Max(0, -k) + n - 1, Max(0, k) + n - 1>>]

\* C1: when stitch_videos returns, the output holds exactly
\* max(0, min(L - max(0,-k), R - max(0,k))) frames: the n-th is the pair of
\* left frame max(0,-k)+n-1 and right frame max(0,k)+n-1, each written once
\* and in order; k > 0 discarded k reads of the right source and none of the
\* left, k < 0 discarded |k| reads of the left source and none of the right.
C1_FrameCount ==
    pc = "returned" =>
        /\ written = ExpectedPairs(nLeft, nRight, frame_offset)
        /\ Len(EventsNamed(log, "write")) = ExpectedCount(nLeft, nRight, frame_offset)
        /\ Len(EventsNamed(log, "skip_right")) = Max(0, frame_offset)
        /\ Len(EventsNamed(log, "skip_left")) = Max(0, -frame_offset)
        /\ (nLeft = nRight /\ frame_offset = 0 => Len(written) = nLeft)
        /\ (nLeft = nRight /\ 0 < frame_offset /\ frame_offset < nLeft
              => Len(written) = nLeft - frame_offset)

C1_Witness ==
    /\ pc = "returned"
    /\ nLeft = 3 /\ nRight = 3 /\ frame_offset = 1
    /\ written = << <<0, 1>>, <<1, 2>> >>

\* the malformed artifacts C4 speaks of
Is3x3(h) == Len(h) = 3 /\ \A i \in 1..3 : Len(h[i]) = 3

Malformed(a) ==
    \/ \E k \in RequiredKeys : k \notin a.keys
    \/ ~Is3x3(a.homography)
    \/ \E i \in 1..Len(a.homography) : \E j \in 1..Len(a.homography[i]) :
          a.homography[i][j] \in {"NaN", "Infinity", "-Infinity"}
    \/ a.canvas_width <= 0
    \/ a.canvas_height <= 0

\* C4: with a malformed artifact loaded from cal_path, stitch_videos raises
\* ValueError having done nothing but load the artifact: no source was
\* opened, no frame read, no output created, no default filled in.
C4_MalformedFailsEagerly ==
    (cal_path = "exists" /\ Malformed(artifact) /\ pc \notin {"calibration", "validate"})
        => /\ pc = "raised"
           /\ exc = "ValueError"
           /\ log = << <<"load_calibration", 0>> >>
           /\ files = {}
           /\ cap_left = "none" /\ cap_right = "none" /\ writer = "none"

C4_Witness ==
    /\ pc = "raised" /\ exc = "ValueError"
    /\ cal_path = "exists"
    /\ "offset_y" \notin artifact.keys

\* C5: every handle stitch_videos opened is released when it returns or raises.
C5_AllReleased ==
    Terminated => cap_left # "open" /\ cap_right # "open" /\ writer # "open"

LoopReads == {"read_left", "read_right"}

FailedReads == {i \in Positions(log, LoopReads) : log[i][2] = -1}

\* C6 (safety): after the first failed read of the loop nothing is stitched,
\* written or reported and no source is read again (the right read that
\* completes the pair of a failed left read is the only read that follows);
\* the call then returns without raising.
C6_Safety ==
    \A i \in FailedReads :
        (\A h \in FailedReads : i <= h) =>
            /\ \A j \in (i + 1)..Len(log) :
                  /\ log[j][1] \notin {"stitch", "write", "write_failed", "callback"}
                  /\ log[j][1] \in LoopReads
                        => j = i + 1 /\ log[i][1] = "read_left" /\ log[j][1] = "read_right"
            /\ exc = "none"
            /\ pc \in {"finally", "returned"}

\* C6: the safety part in every state, and the call always terminates.
C6_LoopEndsAtFirstFailedRead == [](C6_Safety) /\ <>Terminated

C6_Witness ==
    /\ pc = "returned"
    /\ Len(written) = 2
    /\ log[Len(log) - 3] = <<"read_right", -1>>
    /\ log[Len(log) - 4] = <<"read_left", 2>>

\* C7: with a callback, the j-th call carries current = j and the same total
\* as every other call; each call directly follows the write of frame j and
\* each write is directly followed by its call; there are as many calls as
\* frames written once the call for the last written frame was made.
C7_ProgressPerWrittenFrame ==
    has_callback =>
        /\ \A j \in 1..Len(progress_log) :
              progress_log[j][1] = j /\ progress_log[j][2] = progress_log[1][2]
        /\ Len(progress_log) = (IF pc = "progress" THEN Len(written) - 1 ELSE Len(written))
        /\ \A i \in 1..Len(log) :
              /\ log[i][1] = "callback" => i > 1 /\ log[i - 1] = <<"write", log[i][2]>>
              /\ (log[i][1] = "write" /\ i < Len(log)) => log[i + 1] = <<"callback", log[i][2]>>

C7_Witness ==
    /\ pc = "returned" /\ has_callback
    /\ Len(written) = 3
    /\ progress_log = << <<1, 3>>, <<2, 3>>, <<3, 3>> >>

\* a tag the parser's contract accepts: HH:MM:SS:FF, or HH:MM:SS with an
\* optional fraction, the fields separated by ":" or ";"
IsNumTok(t) == t[1] = "num"
IsSep(t) == t \in {Colon, Semi}

ValidTimecode(tag) ==
    \/ /\ Len(tag) = 7
       /\ \A i \in {1, 3, 5, 7} : IsNumTok(tag[i])
       /\ \A i \in {2, 4, 6} : IsSep(tag[i])
    \/ /\ Len(tag) \in {5, 6, 7}
       /\ \A i \in {1, 3} : IsNumTok(tag[i])
       /\ \A i \in {2, 4} : IsSep(tag[i])
       /\ LET sec == SubSeq(tag, 5, Len(tag))
          IN  \/ Len(sec) = 1 /\ IsNumTok(sec[1])
              \/ Len(sec) = 2 /\ IsNumTok(sec[1]) /\ sec[2] = Dot
              \/ Len(sec) = 2 /\ sec[1] = Dot /\ IsNumTok(sec[2])
              \/ Len(sec) = 3 /\ IsNumTok(sec[1]) /\ sec[2] = Dot /\ IsNumTok(sec[3])

\* the tag get_timecode finds in a probe: the container's, else the first
\* stream's that is not empty
FirstTag(probe) ==
    IF probe.format_tc # <<>> THEN probe.format_tc
    ELSE LET idx == {i \in 1..Len(probe.stream_tcs) : probe.stream_tcs[i] # <<>>}
         IN  IF idx = {} THEN <<>>
             ELSE probe.stream_tcs[CHOOSE i \in idx : \A j \in idx : i <= j]

Unusable(probe) ==
    \/ probe.status # "ok"
    \/ FirstTag(probe) = <<>>
    \/ ~ValidTimecode(FirstTag(probe))

\* C8: when either source has no timecode tag, or a tag that is no valid
\* timecode, or its ffprobe call fails, detect_timecode_offset returns None
\* and does not raise.
C8_NoResultNeverRaises ==
    (tc_pc = "done" /\ (Unusable(probe_left) \/ Unusable(probe_right)))
        => tc_result.kind = "none"

\* a shift the search window of the call covers
InWindow == Abs(xc_shift) <= xc_max_offset * xc_rate

\* samples the call analyses of the two cut signals
XcAnalysed == Min(AnalysisSeconds * xc_rate, Min(Len(xc_left), Len(xc_right)))

\* the correlation of the two analysed, mean-removed signals is greater at
\* the lag of the shift than at every other lag of the search window
PeakAtShift ==
    LET n == XcAnalysed
        a == Centered(SubSeq(xc_left, 1, n))
        b == Centered(SubSeq(xc_right, 1, n))
        reach == Min(xc_max_offset * xc_rate, n - 1)
    IN  \A m \in (-reach)..reach :
            m # xc_shift => Correlation(a, b, m) < Correlation(a, b, xc_shift)

\* C3: the offset is positive when the right recording started earlier than
\* the left one (xc_shift < 0: the right file holds -xc_shift samples before
\* the sound the left file begins with), negative when it started later, and
\* its magnitude is the start skew.
C3_PositiveWhenRightStartedEarlier ==
    (xc_pc = "done" /\ InWindow) =>
        /\ xc_result.kind = "value"
        /\ xc_shift < 0 => xc_result.val.num > 0
        /\ xc_shift > 0 => xc_result.val.num < 0
        /\ Abs(xc_result.val.num) = Abs(xc_shift)

\* what the code does instead: the lag is the number of samples by which the
\* right recording started after the left one
C3_CodeSign ==
    (xc_pc = "done" /\ InWindow /\ PeakAtShift) =>
        xc_result = Value(Rat(xc_shift, xc_rate))

\* ---- main()
SameInstant(pair) == left_start + pair[1] = right_start + pair[2]

\* C2: when main's stitch_videos call returns, the source that started
\* first has lost as many leading frames as it started early and the other
\* source none, and every written pair joins two frames of the same instant.
C2_PairsShowSameInstant ==
    (m_pc \in {"stitching", "done"} /\ pc = "returned") =>
        /\ Len(EventsNamed(log, "skip_left")) = Max(0, right_start - left_start)
        /\ Len(EventsNamed(log, "skip_right")) = Max(0, left_start - right_start)
        /\ \A i \in 1..Len(written) : SameInstant(written[i])

\* what the code does: both detectors give right start minus left start
C2_CodeOffset ==
    pc # "not_called" => frame_offset = right_start - left_start

InLog(name) == \E i \in 1..Len(m_log) : m_log[i] = name

AudioSyncFails ==
    \/ audio_left_src = "video_no_audio"
    \/ audio_right_src = "video_no_audio"
    \/ (audio_left_src = "wav_other_rate") # (audio_right_src = "wav_other_rate")

\* C9: audio sync is attempted exactly when timecode detection returned no
\* result; a timecode result is what the frame offset is made from; and when
\* audio sync fails, main raises the error, nothing was cross-correlated
\* and stitch_videos is not started.
C9_AudioOnlyAsFallback ==
    /\ InLog("sync_audio") => tc_offset.kind = "none"
    /\ (m_pc \notin {"detect", "sync_audio"} /\ tc_offset.kind = "none") => InLog("sync_audio")
    /\ (tc_offset.kind = "value" /\ pc # "not_called")
          => /\ ~InLog("sync_audio")
             /\ tc_offset.val.den * frame_offset = tc_offset.val.num * NominalFps
    /\ (InLog("sync_audio") /\ AudioSyncFails)
          => /\ m_pc = "raised" /\ m_exc = "RuntimeError"
             /\ ~InLog("cross_correlate")
             /\ ~InLog("stitch_videos")
             /\ pc = "not_called" /\ log = <<>>

C9_Witness ==
    /\ m_pc = "raised"
    /\ InLog("sync_audio")
    /\ audio_left_src = "video" /\ audio_right_src = "wav_other_rate"

\* ---- calibrate_multi
\* a candidate succeeds when both frames are there, at least MinMatches
\* matches pass the ratio test and a homography is found
Succeeds(scene) ==
    /\ scene.left_ok /\ scene.right_ok
    /\ Cardinality({i \in 1..Len(scene.matches) :
                       /\ Len(scene.matches[i]) = 2
                       /\ 4 * scene.matches[i][1] < 3 * scene.matches[i][2]}) >= 10
    /\ scene.h_found

Successful ==
    {k \in 1..Len(CandidateIndices(cm_total, cm_num_candidates)) :
        Succeeds(cm_scenes[CandidateIndices(cm_total, cm_num_candidates)[k]])}

\* C10: on a source of more than one frame (both sources can be opened),
\* calibrate_multi returns exactly when some candidate succeeds, with one
\* entry per successful candidate, and raises RuntimeError when none does.
C10_ReturnsIffSomeCandidateSucceeds ==
    (cm_total > 1 /\ cm_left_openable /\ cm_right_openable
       /\ cm_pc \in {"returned", "raised"}) =>
        /\ cm_pc = "returned" <=> Successful # {}
        /\ cm_pc = "returned" => Len(cm_results) = Cardinality(Successful)
        /\ Successful = {} => cm_exc = "RuntimeError"

\* what holds of the code: the same, as long as no candidate raises anything
\* but RuntimeError
C10_CodeDoes ==
    (cm_total > 1 /\ cm_left_openable /\ cm_right_openable
       /\ cm_pc \in {"returned", "raised"}
       /\ \A i \in DOMAIN cm_scenes : cm_scenes[i] # SceneOneFeature) =>
        /\ cm_pc = "returned" <=> Successful # {}
        /\ cm_pc = "returned" => Len(cm_results) = Cardinality(Successful)
        /\ Successful = {} => cm_exc = "RuntimeError"

\* C11: the returned list is ordered by num_inliers, non-increasing, holds
\* every successful candidate (as often as it was tried), and the file
\* holds the first element of the list and nothing else.
C11_SortedBestSaved ==
    cm_pc = "returned" =>
        /\ \A i \in 1..(Len(cm_results) - 1) :
              cm_results[i].num_inliers >= cm_results[i + 1].num_inliers
        /\ cm_total > 1 =>
              \A idx \in 0..(cm_total - 1) :
                  Cardinality({i \in 1..Len(cm_results) : cm_results[i].frame_index = idx})
                    = Cardinality({k \in Successful :
                          CandidateIndices(cm_total, cm_num_candidates)[k] = idx})
        /\ cm_file = <<cm_results[1]>>

C11_Witness ==
    /\ cm_pc = "returned"
    /\ Len(cm_results) >= 2
    /\ cm_results[1].frame_index > cm_results[2].frame_index
    /\ cm_results[1].num_inliers > cm_results[2].num_inliers

\* C12: every element of the returned list carries frame_index, the index
\* it was computed from, and inlier_ratio = num_inliers / num_matches,
\* also for a source of at most one frame.
C12_EveryResultTagged ==
    cm_pc = "returned" =>
        \A i \in 1..Len(cm_results) :
            /\ {"frame_index", "inlier_ratio"} \subseteq cm_results[i].keys
            /\ cm_results[i].frame_index \in DOMAIN cm_scenes
            /\ cm_results[i].inlier_ratio.num * cm_results[i].num_matches
                 = cm_results[i].num_inliers * cm_results[i].inlier_ratio.den

\* the candidate positions as fractions, in the order they are tried
Fractions == << <<1, 10>>, <<1, 4>>, <<1, 2>>, <<3, 4>> >>

ExpectedIndices(T, n) ==
    [k \in 1..Min(n, 4) |-> Min((T * Fractions[k][1]) \div Fractions[k][2], T - 1)]

IsPrefix(a, b) == Len(a) <= Len(b) /\ \A i \in 1..Len(a) : a[i] = b[i]

\* C13: for T > 1 the attempts are made at min(floor(T*p), T-1) for
\* p = 0.10, 0.25, 0.50, 0.75 in that order, the first num_candidates of
\* them and at most 4, each within [0, T-1], all of them unless an error
\* ended the call; for T <= 1 there is one attempt, at index 0, and a
\* returned list has one element.
C13_CandidateIndices ==
    /\ cm_total > 1 =>
          /\ IsPrefix(cm_tried, ExpectedIndices(cm_total, cm_num_candidates))
          /\ Len(cm_tried) <= 4
          /\ \A i \in 1..Len(cm_tried) : cm_tried[i] \in 0..(cm_total - 1)
          /\ (cm_pc = "returned" \/ (cm_pc = "raised" /\ cm_exc = "RuntimeError"))
                => cm_tried = ExpectedIndices(cm_total, cm_num_candidates)
    /\ (cm_total <= 1 /\ cm_pc \in {"returned", "raised"} /\ cm_left_openable)
          => cm_tried = <<0>>
    /\ (cm_total <= 1 /\ cm_pc = "returned") => Len(cm_results) = 1

C13_Witness ==
    /\ cm_pc = "returned"
    /\ cm_total = 5
    /\ cm_tried = <<0, 1, 2, 3>>

\* ---- detect_and_match
\* the matches whose best distance is strictly below 0.75 times the second best
Surviving(ms) ==
    {i \in 1..Len(ms) : Len(ms[i]) = 2 /\ 4 * ms[i][1] < 3 * ms[i][2]}

\* C20: with descriptors on both sides, detect_and_match ends with the
\* insufficient-matches RuntimeError exactly when fewer than min_matches
\* matches survive the ratio test, and otherwise returns one point pair per
\* surviving match, never fewer than min_matches.
C20_FailsIffTooFewMatches ==
    (dm_pc \in {"returned", "raised"} /\ Len(dm_scene.matches) > 0 /\ dm_scene.kp_right > 0) =>
        /\ (dm_result.exc = "RuntimeError" /\ dm_result.raised_at = "insufficient_matches")
              <=> Cardinality(Surviving(dm_scene.matches)) < dm_min_matches
        /\ Cardinality(Surviving(dm_scene.matches)) >= dm_min_matches =>
              /\ dm_pc = "returned"
              /\ Len(dm_result.pairs) = Cardinality(Surviving(dm_scene.matches))
        /\ dm_pc = "returned" => Len(dm_result.pairs) >= dm_min_matches

\* what holds of the code: the same, for a right region with two descriptors or more
C20_CodeDoes ==
    (dm_pc \in {"returned", "raised"} /\ Len(dm_scene.matches) > 0 /\ dm_scene.kp_right > 1) =>
        /\ (dm_result.exc = "RuntimeError" /\ dm_result.raised_at = "insufficient_matches")
              <=> Cardinality(Surviving(dm_scene.matches)) < dm_min_matches
        /\ Cardinality(Surviving(dm_scene.matches)) >= dm_min_matches =>
              /\ dm_pc = "returned"
              /\ Len(dm_result.pairs) = Cardinality(Surviving(dm_scene.matches))
        /\ dm_pc = "returned" => Len(dm_result.pairs) >= dm_min_matches

\* ---- compute_canvas_and_blend
\* C14: a record made from an estimated homography that stitch_videos
\* accepts has a canvas wider than either frame and a blend band with
\* blend_x_start < blend_x_end.
C14_CanvasWiderBandNonEmpty ==
    (/\ geo_pc = "done"
     /\ Estimable(geo_h, geo_left, geo_right)
     /\ ValidateCalibration(AsArtifact(geo_cal)) = "ok") =>
        /\ geo_cal.canvas_width > Max(geo_left[1], geo_right[1])
        /\ geo_cal.blend_x_start < geo_cal.blend_x_end

\* the least and the greatest integer around the x coordinates of the
\* warped right corners
WarpedLeftEdge == Floor2(CoordMin(WarpedCorners(geo_h, geo_right), 1))
WarpedRightEdge == Ceil2(CoordMax(WarpedCorners(geo_h, geo_right), 1))

\* C15: in canvas coordinates the band is the intersection of the left
\* frame's extent [-x_min, left_width - x_min] and the warped right
\* frame's extent [warped_x_min - x_min, warped_x_max - x_min].
C15_BandIsIntersection ==
    geo_pc = "done" =>
        /\ geo_cal.blend_x_start
             = Max(-geo_cal.offset_x, WarpedLeftEdge - geo_cal.offset_x)
        /\ geo_cal.blend_x_end
             = Min(geo_left[1] - geo_cal.offset_x, WarpedRightEdge - geo_cal.offset_x)

\* what holds of the code: the band starts at the warped frame's left edge
\* or at canvas column 0, whichever is further right
C15_CodeDoes ==
    geo_pc = "done" =>
        /\ geo_cal.blend_x_start = Max(0, WarpedLeftEdge - geo_cal.offset_x)
        /\ geo_cal.blend_x_end
             = Min(geo_left[1] - geo_cal.offset_x, WarpedRightEdge - geo_cal.offset_x)

EightCorners == LeftCorners(geo_left) \o WarpedCorners(geo_h, geo_right)

\* C16: the offset and the canvas size are those of the smallest integer
\* box around the eight corners, every corner shifted by the offset lies
\* within the canvas, and stitch_frame copies the whole left frame.
C16_CanvasIsUnionBox ==
    geo_pc = "done" =>
        /\ \A k \in 1..8 :
              /\ EightCorners[k][1] - 2 * geo_cal.offset_x \in 0..(2 * geo_cal.canvas_width)
              /\ EightCorners[k][2] - 2 * geo_cal.offset_y \in 0..(2 * geo_cal.canvas_height)
        /\ \E k \in 1..8 : EightCorners[k][1] - 2 * geo_cal.offset_x < 2
        /\ \E k \in 1..8 : EightCorners[k][1] - 2 * geo_cal.offset_x > 2 * (geo_cal.canvas_width - 1)
        /\ \E k \in 1..8 : EightCorners[k][2] - 2 * geo_cal.offset_y < 2
        /\ \E k \in 1..8 : EightCorners[k][2] - 2 * geo_cal.offset_y > 2 * (geo_cal.canvas_height - 1)
        /\ LET p == Placement(geo_cal.canvas_width, geo_cal.canvas_height,
                              geo_cal.offset_x, geo_cal.offset_y, geo_left[1], geo_left[2])
           IN  /\ p.src_x_start = 0 /\ p.src_x_end = geo_left[1]
               /\ p.src_y_start = 0 /\ p.src_y_end = geo_left[2]
               /\ p.x_end - p.x_start = geo_left[1]
               /\ p.y_end - p.y_start = geo_left[2]

C16_Witness ==
    /\ geo_pc = "done"
    /\ geo_cal.offset_x < 0
    /\ geo_cal.offset_y < 0
    /\ CoordMin(EightCorners, 1) % 2 = 1
    /\ CoordMin(EightCorners, 2) % 2 = 1

\* ---- stitch_frame
\* Where the two images lie on the canvas, from the geometry alone: canvas
\* pixel (x, y) shows left pixel (x + offset_x, y + offset_y) and right
\* pixel (x + offset_x - tx, y + offset_y - ty).
OnCanvas == (0..(sf_cal.canvas_height - 1)) \X (0..(sf_cal.canvas_width - 1))

LeftPos(pos) == <<pos[1] + sf_cal.offset_y, pos[2] + sf_cal.offset_x>>
RightPos(pos) == <<pos[1] + sf_cal.offset_y - sf_given.H.ty2 \div 2,
                   pos[2] + sf_cal.offset_x - sf_given.H.tx2 \div 2>>

LeftCovers(pos) == LeftPos(pos) \in DOMAIN sf_given.frame_left.at
RightCovers(pos) == RightPos(pos) \in DOMAIN sf_given.frame_right.at

LeftValue(pos) == IF LeftCovers(pos) THEN sf_given.frame_left.at[LeftPos(pos)] ELSE <<0, 0, 0>>
RightValue(pos) == IF RightCovers(pos) THEN sf_given.frame_right.at[RightPos(pos)] ELSE <<0, 0, 0>>

LeftHas(pos) == LeftValue(pos) # <<0, 0, 0>>
RightHas(pos) == RightValue(pos) # <<0, 0, 0>>

BandWidth == sf_cal.blend_x_end - sf_cal.blend_x_start
InBand(pos) == pos[2] >= sf_cal.blend_x_start /\ pos[2] < sf_cal.blend_x_end
Out(pos) == sf_out1.canvas.at[pos]

\* (1 - alpha) * left + alpha * right for alpha = i / d, every channel cut
\* to an integer
Mix(pos, i, d) ==
    [c \in 1..3 |-> ((d - i) * LeftValue(pos)[c] + i * RightValue(pos)[c]) \div d]

C18_NoBlackWhereContent ==
    sf_pc \in {"called_once", "returned"} =>
        \A pos \in OnCanvas :
            /\ (LeftHas(pos) \/ RightHas(pos)) => Out(pos) # <<0, 0, 0>>
            /\ (~LeftCovers(pos) /\ ~RightCovers(pos)) => Out(pos) = <<0, 0, 0>>
            /\ (~InBand(pos) /\ LeftCovers(pos) /\ ~RightCovers(pos)) => Out(pos) = LeftValue(pos)
            /\ (~InBand(pos) /\ RightCovers(pos) /\ ~LeftCovers(pos)) => Out(pos) = RightValue(pos)

C18_Witness ==
    /\ sf_pc = "called_once"
    /\ \E pos \in OnCanvas : ~InBand(pos) /\ RightHas(pos) /\ ~LeftCovers(pos)
    /\ \E pos \in OnCanvas : ~LeftCovers(pos) /\ ~RightCovers(pos)
    /\ \E pos \in OnCanvas : InBand(pos) /\ LeftHas(pos) /\ RightHas(pos)
                               /\ Mix(pos, pos[2] - sf_cal.blend_x_start,
                                      Max(BandWidth - 1, 1)) = <<0, 0, 0>>

C21_OffsetWithinWindow ==
    /\ lg_pc \in {"called", "done"} =>
          LET n == Analysed(lg_left, lg_right, lg_rate)
          IN  /\ lg_result.kind = "value"
              /\ Abs(lg_result.val.num) <= lg_max_offset * lg_result.val.den
              /\ Abs(lg_result.val.num) * lg_rate <= (n - 1) * lg_result.val.den
    /\ lg_pc = "done" => lg_result2 = lg_result

C21_Witness ==
    /\ lg_pc = "done"
    /\ Len(lg_left) > AnalysisSeconds * lg_rate
    /\ lg_left2 # lg_left
    /\ lg_result.val.num # 0

IsConstant(q) == \A i \in 1..Len(q) : q[i] = q[1]

IsFramesTag(tag) ==
    /\ Len(tag) = 7
    /\ \A i \in {1, 3, 5, 7} : IsNumTok(tag[i])
    /\ \A i \in {2, 4, 6} : IsSep(tag[i])

IsMillisTag(tag) ==
    /\ Len(tag) = 7
    /\ \A i \in {1, 3, 5, 7} : IsNumTok(tag[i])
    /\ \A i \in {2, 4} : IsSep(tag[i])
    /\ tag[6] = Dot

\* 3600*HH + 60*MM + SS + FF/30, or 3600*HH + 60*MM + SS.mmm
ClaimedSeconds(tag) ==
    LET whole == 3600 * tag[1][2] + 60 * tag[3][2] + tag[5][2]
    IN  IF IsFramesTag(tag) THEN Rat(30 * whole + tag[7][2], 30)
        ELSE Rat(1000 * whole + tag[7][2], 1000)

ExposesTimecode(probe) ==
    /\ probe.status = "ok"
    /\ IsFramesTag(FirstTag(probe)) \/ IsMillisTag(FirstTag(probe))

\* C23: when both sources expose a timecode, the container's tag before a
\* stream's, detect_timecode_offset returns right seconds minus left
\* seconds, with HH:MM:SS:FF read at 30 frames per second.
C23_RightMinusLeft ==
    (tc_pc = "done" /\ ExposesTimecode(probe_left) /\ ExposesTimecode(probe_right)) =>
        /\ tc_result.kind = "value"
        /\ RatSub(tc_result.val,
                  RatSub(ClaimedSeconds(FirstTag(probe_right)),
                         ClaimedSeconds(FirstTag(probe_left)))).num = 0

C23_Witness ==
    /\ tc_pc = "done"
    /\ ExposesTimecode(probe_left) /\ ExposesTimecode(probe_right)
    /\ probe_left.format_tc # Absent
    /\ \E i \in 1..Len(probe_left.stream_tcs) :
          probe_left.stream_tcs[i] \notin {Absent, probe_left.format_tc}
    /\ IsFramesTag(FirstTag(probe_left))
    /\ IsMillisTag(FirstTag(probe_right))
    /\ \E i \in 1..7 : FirstTag(probe_right)[i] = Semi
    /\ tc_result.val.num > 0

\* ---- the persisted calibration record
\* what json.load gives stitch_videos for a persisted record; the canvas
\* size stands for any positive one
Loaded(record) ==
    [keys |-> record.keys, homography |-> record.homography,
     canvas_width |-> 2, canvas_height |-> 2]

\* C24: every record calibrate or calibrate_multi has written holds the
\* seven structural keys and the five informational keys, its homography is
\* a 3x3 nested array, and loading it passes the required-key and
\* matrix-shape checks of stitch_videos.
C24_PersistedRecordComplete ==
    \A i \in 1..Len(cm_file) :
        /\ RequiredKeys \subseteq cm_file[i].keys
        /\ InfoKeys \subseteq cm_file[i].keys
        /\ Len(cm_file[i].homography) = 3
        /\ \A r \in 1..3 : Len(cm_file[i].homography[r]) = 3
        /\ ValidateCalibration(Loaded(cm_file[i])) = "ok"

C24_Witness ==
    /\ cm_pc = "returned"
    /\ Len(cm_results) >= 2
    /\ Len(cm_file) = 1
    /\ "frame_index" \in cm_file[1].keys

\* ---- CropState
CropFits(cs) == CropW(cs) <= cs.pano_width /\ CropH(cs) <= cs.pano_height

\* C25: after any sequence of move and adjust_zoom calls the crop
\* rectangle lies within the panorama and is not empty.
C25_CropWithinPanorama ==
    cs_pc = "made" =>
        /\ CropX(Crop) >= 0 /\ CropY(Crop) >= 0
        /\ CropW(Crop) > 0 /\ CropH(Crop) > 0
        /\ CropX(Crop) + CropW(Crop) <= pano_width
        /\ CropY(Crop) + CropH(Crop) <= pano_height

\* what the code keeps: the rectangle lies within the panorama whenever the
\* crop size of the zoom level is no larger than the panorama
C25_CodeDoes ==
    (cs_pc = "made" /\ CropFits(Crop)) =>
        /\ CropX(Crop) >= 0 /\ CropY(Crop) >= 0
        /\ CropX(Crop) + CropW(Crop) <= pano_width
        /\ CropY(Crop) + CropH(Crop) <= pano_height

\* ---- render_broadcast
\* the rows among the first n whose crop cells are integers
ParseableUpTo(n) == {i \in 1..n : rb_rows[i].cells = "ints"}

\* C26: the k-th row processed consumes the k-th source frame; the call
\* ends without error after min(source frames, log rows) rows, a row whose
\* crop values do not parse is skipped, and every other processed row has
\* exactly one output frame written, in order.
C26_OneFramePerParseableRow ==
    /\ \A k \in 1..Len(rb_consumed) : rb_consumed[k] = <<k, k - 1>>
    /\ (rb_pc \in {"returned", "raised"} /\ rb_openable) =>
          /\ rb_pc = "returned"
          /\ Len(rb_consumed) = Min(rb_source, Len(rb_rows))
          /\ Len(rb_written) = Cardinality(ParseableUpTo(Len(rb_consumed)))
          /\ \A k \in 1..Len(rb_written) :
                /\ rb_written[k] \in ParseableUpTo(Len(rb_consumed))
                /\ k > 1 => rb_written[k - 1] < rb_written[k]

\* what the code does for rows whose cells are integer literals or text,
\* when no full-panorama crop has to be letterboxed into a narrower output
C26_CodeDoes ==
    (/\ rb_pc \in {"returned", "raised"} /\ rb_openable
     /\ \A i \in 1..Len(rb_rows) :
           /\ rb_rows[i].cells # "none"
           /\ rb_rows[i].cells = "ints" =>
                   MakeOutputFrame(rb_rows[i], rb_pano, RenderOutput) = "ok") =>
        /\ rb_pc = "returned"
        /\ Len(rb_consumed) = Min(rb_source, Len(rb_rows))
        /\ Len(rb_written) = Cardinality(ParseableUpTo(Len(rb_consumed)))

\* ---- the two sync methods on one recording
\* C27: for the same start skew the timecode path and the audio path give
\* the same offset in seconds and the same frame offset.
C27_SyncMethodsAgree ==
    sy_pc = "done" =>
        /\ sy_tc.kind = "value" /\ sy_audio.kind = "value"
        /\ RatSub(sy_tc.val, sy_audio.val).num = 0
        /\ sy_tc_frames = sy_audio_frames

\* what the code does: the audio path gives the start skew at every frame
\* rate, the timecode path at the frame rate timecode_to_seconds assumes
C27_CodeDoes ==
    sy_pc = "done" =>
        /\ sy_audio_frames = sy_right_start - sy_left_start
        /\ sy_fps = NominalFps => sy_tc_frames = sy_right_start - sy_left_start

\* ---- calibrate_multi and the calibration file
\* C29: calibrate_multi writes <output_dir>/<date>_cal.json only after at
\* least one candidate succeeded: while it runs and whenever it raises
\* (every candidate failed, the left source cannot be opened) nothing has
\* been written, so no file is created and an existing one is untouched.
C29_FileOnlyAfterSuccess ==
    /\ cm_pc \in {"open", "single", "loop", "raised"} => cm_file = <<>>
    /\ cm_file # <<>> => cm_pc = "returned" /\ cm_results # <<>>

C29_Witness ==
    /\ cm_pc = "raised" /\ cm_exc = "RuntimeError"
    /\ cm_total > 1
    /\ Len(cm_skipped) = Len(CandidateIndices(cm_total, cm_num_candidates))
    /\ Len(cm_skipped) >= 2
    /\ cm_file = <<>>

\* ---- stitch_videos with a cal_path that names no file
IsMissing == cal_path \in {"missing", "missing_default"}

\* an external call of that name was made
Logged(name) == \E i \in 1..Len(log) : log[i][1] = name

\* the named file is never read, a fresh calibration on frame 0 is the first
\* thing done, its failure is the only error of step 1, and once past step 1
\* the calibration is the fresh one, saved as calibrations/<date>_cal.json
FreshCalibration ==
    /\ ~Logged("load_calibration")
    /\ pc # "calibration" => log[1][1] = "calibrate_open_left"
    /\ (pc # "calibration" /\ left_openable) => log[2] = <<"calibrate_read_left", ReadFrame(0, nLeft)>>
    /\ Logged("save_calibration") <=> DefaultCalFile \in files
    /\ ~Logged("save_calibration") => pc \in {"calibration", "raised"} /\ files = {}
    /\ Logged("save_calibration") => cal_data = GoodArtifact
    /\ exc # "ValueError"

====
